---------------------------- MODULE Spec2Model ----------------------------
(***************************************************************************)
(* Model of the OCI flexvolume driver: the block-volume attachment         *)
(* protocol of pkg/oci/driver (Attach, Detach) over pkg/oci/client         *)
(* (AttachVolume, DetachVolume, FindVolumeAttachment,                      *)
(* WaitForVolumeAttached, WaitForVolumeDetached), run against the remote   *)
(* volume-attachment service.                                              *)
(*                                                                         *)
(* Three specifications share the module:                                  *)
(*   Spec      one call-out at a time against the remote service, with     *)
(*             other tenants' attach/detach requests interleaved;          *)
(*   SpecWait  the two polling loops against an arbitrary sequence of      *)
(*             observed lifecycle states;                                  *)
(*   SpecFind  FindVolumeAttachment over arbitrary paginated listings.     *)
(***************************************************************************)
EXTENDS Integers, Sequences, FiniteSets, TLC

VARIABLES
    attachments,  \* remote service: volume attachments in list order; the id is the index
    pc,           \* position of the running call-out ("idle" between call-outs)
    cur,          \* the call-out running, or the one that returned last
    att,          \* id of the attachment the call-out holds (0: none)
    i,            \* loop counter of WaitForVolumeAttached / WaitForVolumeDetached
    statusCode,   \* status code of this call-out's AttachVolume response (0: no call yet)
    found,        \* id FindVolumeAttachment returned on the 409 path (0: none)
    calls,        \* remote calls issued by this call-out, per kind
    last,         \* DriverStatus the call-out returned (NoResult while it runs)
    okAttach,     \* history: the earliest successful Attach not followed by a detach request
    detachRun,    \* history: the Detach whose detach request no attach request has followed (count 0:
                  \* it runs, 1: it returned Success, 2: a later Detach returned as well)
    wkind,        \* SpecWait: which loop runs ("attach" or "detach")
    wpc,          \* SpecWait: "poll", "sleep" or "done"
    wi,           \* SpecWait: the loop counter i
    wobs,         \* SpecWait: lifecycle states observed by the polls, in order
    wsleeps,      \* SpecWait: time.Sleep calls made
    wres,         \* SpecWait: what the loop returned ("" while it runs)
    fpages,       \* SpecFind: the ListVolumeAttachments pages (lifecycle states)
    fpc,          \* SpecFind: "call" or "done"
    fres,         \* SpecFind: what FindVolumeAttachment returned
    regionKey,    \* SpecDerive: the region key of the configuration
    volumeName,   \* SpecDerive: the volume name the orchestrator passed
    dpc,          \* SpecDerive: "call", "again" or "done"
    volumeOCID,   \* SpecDerive: what deriveVolumeOCID returned for the name
    volumeOCID2,  \* SpecDerive: what it returned for its own result
    rpc,          \* SpecResolve: position in GetInstanceByNodeName
    rcache,       \* SpecResolve: the cache handle, and how often the file was locked and rewritten
    rfile,        \* SpecResolve: the tokens of nodenamecache.json
    running,      \* SpecResolve: the local list running of the phase that runs
    rsubnets,     \* SpecResolve: what getAllSubnetsForVNC returned
    rpage,        \* SpecResolve: list pages fetched by the phase that runs
    rleft,        \* SpecResolve: items of the current vnic-attachment page not yet visited
    rmore,        \* SpecResolve: the current vnic-attachment page has a next page
    ritem,        \* SpecResolve: the vnic attachment the loop body holds
    rres,         \* SpecResolve: what GetInstanceByNodeName returned
    rhist,        \* SpecResolve: history of the remote calls and their answers
    cfile,        \* SpecCache: the tokens of the cache file
    clock,        \* SpecCache: the flock each invocation holds on the file ("" for none)
    cproc,        \* SpecCache: per invocation, its position and its cache handle
    clast,        \* SpecCache: the last GetVnic of the invocation that holds the cache
    cpend,        \* SpecCache: history: what the holder set since its Open
    cexpect,      \* SpecCache: history: what was set and then written by a Close
    mhost,        \* SpecMount: the node: initiator record, session, filesystem, mount
    mlast,        \* SpecMount: the last MountDevice or UnmountDevice call and what it did
    mprev,        \* SpecMount: the call before the last
    edrivers,     \* SpecExec: the drivers ExecDriver is given, in order
    ecall,        \* SpecExec: the arguments of the last call-out
    eres,         \* SpecExec: the status the last call-out returned
    killed,       \* SpecRetry: history: the Attach that was killed after its attach
                  \* request was accepted, and the attachment the request created
    exports,      \* SpecExport: remote service: the lifecycle state of the export of
                  \* the file system at each path ("NONE": no export)
    xpc,          \* SpecExport: position in AttachFileSystemToMountTarget
    xpath,        \* SpecExport: its argument path
    export,       \* SpecExport: the lifecycle state of the export it holds ("" for none)
    xfound,       \* SpecExport: findExport returned an export
    xpolls,       \* SpecExport: GetExport calls made, counted up to MaxPolls
    xres,         \* SpecExport: what it returned ("" while it runs)
    nhost,        \* SpecNfs: the node: the directories that exist and what is
                  \* mounted at each
    nlast,        \* SpecNfs: the last call-out of the file-storage driver and its status
    invs,         \* SpecPar: the two concurrent Attach invocations: position, node,
                  \* attachment held, poll counter, status code, status returned
    tcall,        \* SpecFrame: the last call-out: driver and method
    tdone,        \* SpecFrame: the remote calls and local operations it made
    gdrivers,     \* SpecRegistry: the drivers map of package driver
    gfirst,       \* SpecRegistry: per name, the driver passed when the name was registered
    gcall,        \* SpecRegistry: the last call of Register or Get
    gres,         \* SpecRegistry: what the last Get returned
    qlast         \* SpecObserve: the last IsAttached or WaitForAttach call-out, its
                  \* status, and what the remote service held when it ran

drv == <<pc, cur, att, i, statusCode, found, calls, last>>
hist == <<okAttach, detachRun>>
wvars == <<wkind, wpc, wi, wobs, wsleeps, wres>>
fvars == <<fpages, fpc, fres>>
dvars == <<regionKey, volumeName, dpc, volumeOCID, volumeOCID2>>
\* the variables of Spec, SpecWait and SpecFind
base == <<attachments, drv, hist, wvars, fvars>>
\* the variables of the other specifications
rvars == <<rpc, rcache, rfile, running, rsubnets, rpage, rleft, rmore, ritem, rres, rhist>>
cvars == <<cfile, clock, cproc, clast, cpend, cexpect>>
mvars == <<mhost, mlast, mprev>>
evars == <<edrivers, ecall, eres>>
qvars == <<qlast>>
kvars == <<killed>>
svars == <<exports, xpc, xpath, export, xfound, xpolls, xres>>
nvars == <<nhost, nlast>>
pvars == <<invs>>
tvars == <<tcall, tdone>>
gvars == <<gdrivers, gfirst, gcall, gres>>
xvars == <<dvars, rvars, cvars, mvars, evars, qvars, kvars, svars, nvars, pvars, tvars, gvars>>
vars == <<base, xvars>>

----------------------------------------------------------------------------
(* Program constants *)

ociMaxRetries == 120

StatusConflict == 409

----------------------------------------------------------------------------
(* Bounds *)

\* attach requests the remote service accepts in one behaviour
MaxAttachments == 2

\* entries per ListVolumeAttachments page served to the call-outs of Spec
PageSize == 1

\* pages and entries per page of the listings of SpecFind
MaxPages == 2

MaxPageLen == 2

\* characters a volume name of SpecDerive carries after its leading part
MaxTailLen == 2

\* vnic attachments per ListVnicAttachments page
MaxVnicPageLen == 1

\* concurrent invocations of SpecCache, and cache handles they open in all
MaxProcs == 2

MaxOpens == 3

\* GetExport calls of one AttachFileSystemToMountTarget that are counted
MaxPolls == 3

----------------------------------------------------------------------------
(* Data *)

Volumes == {"vol1"}

Nodes == {"node1", "node2"}

Instances == {"inst1", "inst2"}

\* lifecycle states of core.VolumeAttachment
LifecycleStates == {"ATTACHING", "ATTACHED", "DETACHING", "DETACHED"}

\* what a get-attachment poll can observe: the four states or an unrecognised value
ObservableStates == LifecycleStates \cup {"UNKNOWN"}

\* status codes of a failed AttachVolume other than the conflict
ErrorStatusCodes == {404, 500}

NotFound == [id |-> 0, volume |-> "", instance |-> "", state |-> "", iscsi |-> FALSE]

NoResult == [status |-> "", from |-> "", why |-> "", device |-> 0]

NoCall == [op |-> "", volume |-> "", node |-> ""]

\* remote calls of one call-out: requests counted, polled = a get-attachment poll was made
NoCalls == [attach |-> 0, list |-> 0, detach |-> 0, polled |-> FALSE]

NoAttach == [volume |-> "", node |-> "", device |-> 0, count |-> 0]

NoDetach == [volume |-> "", count |-> 0]

----------------------------------------------------------------------------
(* pkg/flexvolume: the status a call-out returns.  "from" names the call   *)
(* whose error value the message carries, "why" the kind of failure.       *)

Fail(from, why) == [status |-> "Failure", from |-> from, why |-> why, device |-> 0]

Succeed(device) == [status |-> "Success", from |-> "", why |-> "", device |-> device]

\* failures that come from the environment of a call-out, not from the protocol
EnvFailures == {"config", "resolve", "api"}

----------------------------------------------------------------------------
(* pkg/oci/client *)

Min(a, b) == IF a < b THEN a ELSE b

\* variant: no state test, every listed attachment matches
IsLiveAnyState(state) == TRUE

\* variant: an attachment being detached is found as well
IsLiveOrDetaching(state) == state # "DETACHED"

\* variant: an attachment still ATTACHING is not found
IsLiveAttachedOnly(state) == state = "ATTACHED"

\* the state test of FindVolumeAttachment: ATTACHING or ATTACHED
IsLive(state) == state = "ATTACHING" \/ state = "ATTACHED"

\* index of the first entry of one page that passes the state test, 0 if none
ScanItems(items) ==
    IF \E k \in 1..Len(items) : IsLive(items[k].state)
    THEN CHOOSE k \in 1..Len(items) :
            /\ IsLive(items[k].state)
            /\ \A j \in 1..(k - 1) : ~IsLive(items[j].state)
    ELSE 0

\* variant: only the first response is searched, OpcNextPage is ignored
RECURSIVE FindFromPageNoNext(_, _)
FindFromPageNoNext(pages, p) ==
    LET hit == ScanItems(pages[p])
    IN  IF hit # 0 THEN pages[p][hit] ELSE NotFound

\* the page loop of FindVolumeAttachment from page p on: return the first
\* match of the page, else go on to the next page while there is one
RECURSIVE FindFromPage(_, _)
FindFromPage(pages, p) ==
    LET hit == ScanItems(pages[p])
    IN  IF hit # 0 THEN pages[p][hit]
        ELSE IF p = Len(pages) THEN NotFound
        ELSE FindFromPage(pages, p + 1)

FindVolumeAttachment(pages) == FindFromPage(pages, 1)

\* variant: off by one, i <= ociMaxRetries
RetryAllowedInclusive(n) == n <= ociMaxRetries

\* the loop condition of both polling loops
RetryAllowed(n) == n < ociMaxRetries

\* variant: ATTACHED is not recognised as the goal and is waited on
WaitAttachedCaseNoGoal(state) ==
    CASE state = "ATTACHING" -> "sleep"
      [] state = "ATTACHED"  -> "sleep"
      [] OTHER               -> "unexpected"

\* variant: a detach in progress is waited on instead of failing
WaitAttachedCaseLenient(state) ==
    CASE state = "ATTACHING" -> "sleep"
      [] state = "DETACHING" -> "sleep"
      [] state = "ATTACHED"  -> "return"
      [] OTHER               -> "unexpected"

\* variant: an attachment still ATTACHING is returned as if it were attached
WaitAttachedCaseEager(state) ==
    CASE state = "ATTACHING" -> "return"
      [] state = "ATTACHED"  -> "return"
      [] OTHER               -> "unexpected"

\* the switch of WaitForVolumeAttached on the observed state
WaitAttachedCase(state) ==
    CASE state = "ATTACHING" -> "sleep"
      [] state = "ATTACHED"  -> "return"
      [] OTHER               -> "unexpected"

\* variant: an attachment still ATTACHED is waited on
WaitDetachedCaseLenient(state) ==
    CASE state = "DETACHING" -> "sleep"
      [] state = "ATTACHED"  -> "sleep"
      [] state = "DETACHED"  -> "return"
      [] OTHER               -> "unexpected"

\* variant: an attachment still DETACHING is taken for detached
WaitDetachedCaseEager(state) ==
    CASE state = "DETACHING" -> "return"
      [] state = "DETACHED"  -> "return"
      [] OTHER               -> "unexpected"

\* the switch of WaitForVolumeDetached on the observed state
WaitDetachedCase(state) ==
    CASE state = "DETACHING" -> "sleep"
      [] state = "DETACHED"  -> "return"
      [] OTHER               -> "unexpected"

----------------------------------------------------------------------------
(* pkg/oci/client/cache: the vnic cache and its file.  The file is the      *)
(* sequence of the JSON tokens written to it; an optional string (a       *)
(* pointer to a string) is <<>> for nil and <<s>> for a pointer to s.      *)

\* the vnic ids, in the order json.Encoder sorts them
VnicOrder == <<"v1", "v2">>

VnicIds == {VnicOrder[k] : k \in 1..Len(VnicOrder)}

\* the node name the orchestrator passes
NodeName == <<"n", "1">>

\* core.Vnic, the fields the driver reads
VnicValues ==
    { [publicIp |-> <<>>, hostnameLabel |-> <<>>],
      [publicIp |-> <<NodeName>>, hostnameLabel |-> <<>>],
      [publicIp |-> << <<"9">> >>, hostnameLabel |-> << <<"n">> >>],
      [publicIp |-> << <<"9">> >>, hostnameLabel |-> << <<>> >>],
      [publicIp |-> << <<"9">> >>, hostnameLabel |-> << <<"n", "2">> >>] }

NoVnic == [publicIp |-> <<>>, hostnameLabel |-> <<>>]

\* map[string]core.Vnic{}
EmptyMap == [id \in {} |-> NoVnic]

\* every map over the vnic ids
VnicMaps == UNION {[ids -> VnicValues] : ids \in SUBSET VnicIds}

\* JSON form of an optional string, and back
JsonOpt(opt) == IF opt = <<>> THEN <<"null">> ELSE <<"string", opt[1]>>

UnJsonOpt(json) == IF json[1] = "null" THEN <<>> ELSE <<json[2]>>

JsonVnic(v) == [publicIp |-> JsonOpt(v.publicIp), hostnameLabel |-> JsonOpt(v.hostnameLabel)]

UnJsonVnic(j) == [publicIp |-> UnJsonOpt(j.publicIp), hostnameLabel |-> UnJsonOpt(j.hostnameLabel)]

Punct(t) == [t |-> t, id |-> "", value |-> JsonVnic(NoVnic)]

\* the keys of a map in the order json.Encoder writes them
SortedKeys(vnics) == SelectSeq(VnicOrder, LAMBDA id : id \in DOMAIN vnics)

\* json.NewEncoder(file).Encode(&vnics): the object and a newline
Encode(vnics) ==
    <<Punct("{")>>
        \o [k \in 1..Len(SortedKeys(vnics)) |->
               [t |-> "entry", id |-> SortedKeys(vnics)[k],
                value |-> JsonVnic(vnics[SortedKeys(vnics)[k]])]]
        \o <<Punct("}"), Punct("nl")>>

\* position of the token that closes the object opened by the first token,
\* 0 when the text does not start with a complete object
ObjectEnd(text) ==
    IF Len(text) >= 2 /\ text[1].t = "{"
          /\ \E j \in 2..Len(text) :
                text[j].t = "}" /\ \A k \in 2..(j - 1) : text[k].t = "entry"
    THEN CHOOSE j \in 2..Len(text) :
            text[j].t = "}" /\ \A k \in 2..(j - 1) : text[k].t = "entry"
    ELSE 0

\* variant: Open does not read the file, every handle starts with an empty map
DecodeNothing(text) == EmptyMap

\* json.NewDecoder(file).Decode(&vnicCache): the first JSON value of the
\* file; on an error the map stays empty (Open only logs the error).  A
\* key that occurs twice keeps its last value.
Decode(text) ==
    LET end == ObjectEnd(text)
        ids == {text[k].id : k \in 2..(end - 1)}
        lastOf(id) == CHOOSE k \in 2..(end - 1) :
                         text[k].id = id /\ \A j \in (k + 1)..(end - 1) : text[j].id # id
    IN  IF end = 0 THEN EmptyMap
        ELSE [id \in ids |-> UnJsonVnic(text[lastOf(id)].value)]

\* variant: no Seek(0, 0), the data goes to the end of the file
WriteAtEnd(text, data) == text \o data

\* Seek(0, 0) and Write: the data replaces the head of the file; the file is
\* not truncated, what lies behind the data stays
WriteAt0(text, data) == data \o SubSeq(text, Len(data) + 1, Len(text))

\* variant: a key that is present keeps its value
SetVnicIfAbsent(vnics, id, value) ==
    [k \in DOMAIN vnics \cup {id} |-> IF k \in DOMAIN vnics THEN vnics[k] ELSE value]

\* nc.vnics[id] = *value
SetVnic(vnics, id, value) == [k \in DOMAIN vnics \cup {id} |-> IF k = id THEN value ELSE vnics[k]]

\* value, ok := nc.vnics[id]
GetVnic(vnics, id) ==
    IF id \in DOMAIN vnics THEN [value |-> vnics[id], ok |-> TRUE]
    ELSE [value |-> NoVnic, ok |-> FALSE]

\* variant: a shared lock
OpenLockModeShared == "LOCK_SH"

\* the lock Open takes on the file
OpenLockMode == "LOCK_EX"

\* flock(2): an exclusive lock is granted when no other open file holds a
\* lock, a shared lock when no other holds an exclusive one
FlockGranted(mode, others) ==
    IF mode = "LOCK_EX" THEN others \subseteq {""} ELSE "LOCK_EX" \notin others

\* variant: the handle keeps the closed file
FileAfterCloseKept == "closed"

\* the deferred function of Close: nc.file.Close(), nc.file = nil
FileAfterClose == "nil"

----------------------------------------------------------------------------
(* pkg/oci/driver: MountDevice and UnmountDevice over the iSCSI mounter.   *)
(* A run is what one call does: the node it leaves, the status it returns  *)
(* and the mounter calls it made, in order.                                *)

Run(host, result, did, errs) ==
    [host |-> host, result |-> result, did |-> did, errs |-> errs]

\* iSCSIMounter.DeviceOpened: the device is open, that is, mounted
DeviceOpened(host) == host.mounted

\* variant: the result of DeviceOpened is not looked at
AlreadyMountedIgnored(isMounted) == FALSE

\* MountDevice returns "Device already mounted. Nothing to do."
AlreadyMounted(isMounted) == isMounted

\* variant: the error of a step is dropped and the next step runs
StepFailsIgnored(err) == FALSE

\* if err != nil { return flexvolume.Fail(err) }
StepFails(err) == err

\* the steps of MountDevice that can fail on the operating system
MountSteps ==
    <<"DeviceOpened", "AddToDB", "SetAutomaticLogin", "Login",
      "waitForPathToExist", "FormatAndMount">>

MountFaults == {MountSteps[k] : k \in DOMAIN MountSteps}

\* iSCSIMounter.FormatAndMount: it fails on an error of the operating
\* system, without the mount directory and on a filesystem other than the
\* requested one; otherwise it formats a volume without filesystem, and
\* mounts
FormatAndMount(host, fstype, oserr) ==
    IF oserr \/ ~host.dir \/ host.fs \notin {"", fstype}
    THEN [host |-> host, err |-> TRUE, did |-> <<>>]
    ELSE IF host.fs = ""
    THEN [host |-> [host EXCEPT !.fs = fstype, !.mounted = TRUE], err |-> FALSE,
          did |-> <<"mkfs", "mount">>]
    ELSE [host |-> [host EXCEPT !.mounted = TRUE], err |-> FALSE, did |-> <<"mount">>]

\* the run of MountDevice(mountDir, mountDevice, opts); valid: the device
\* path parses as an iSCSI disk-by-path name; fault: the step on which the
\* operating system fails ("none": on no step).  errs lists the steps that
\* returned an error, did the calls made after the check of DeviceOpened.
MountRuns(host, valid, fstype, fault) ==
    LET Err(step, err) == IF err THEN <<step>> ELSE <<>>
        isMounted == fault # "DeviceOpened" /\ DeviceOpened(host)
        h1 == IF fault = "AddToDB" THEN host ELSE [host EXCEPT !.db = TRUE]
        h2 == IF fault = "SetAutomaticLogin" THEN h1 ELSE [h1 EXCEPT !.auto = TRUE]
        h3 == IF fault = "Login" THEN h2 ELSE [h2 EXCEPT !.session = TRUE]
        exists == fault # "waitForPathToExist" /\ h3.session
        fam == FormatAndMount(h3, fstype, fault = "FormatAndMount")
        e0 == Err("NewFromDevicePath", ~valid)
        e1 == e0 \o Err("DeviceOpened", fault = "DeviceOpened")
        e2 == e1 \o Err("AddToDB", fault = "AddToDB")
        e3 == e2 \o Err("SetAutomaticLogin", fault = "SetAutomaticLogin")
        e4 == e3 \o Err("Login", fault = "Login")
        e5 == e4 \o Err("waitForPathToExist", ~exists)
        e6 == e5 \o Err("FormatAndMount", fam.err)
        d1 == <<"AddToDB">>
        d2 == d1 \o <<"SetAutomaticLogin">>
        d3 == d2 \o <<"Login">>
        d4 == d3 \o <<"waitForPathToExist">>
        d5 == d4 \o <<"FormatAndMount">>
    IN  IF StepFails(~valid)
        THEN {Run(host, Fail("NewFromDevicePath", "parse"), <<>>, e0)}
        ELSE IF StepFails(fault = "DeviceOpened")
        THEN {Run(host, Fail("DeviceOpened", "os"), <<>>, e1)}
        ELSE IF AlreadyMounted(isMounted)
        THEN {Run(host, Succeed(0), <<>>, e1)}
        ELSE IF StepFails(fault = "AddToDB")
        THEN {Run(h1, Fail("AddToDB", "os"), d1, e2)}
        ELSE IF StepFails(fault = "SetAutomaticLogin")
        THEN {Run(h2, Fail("SetAutomaticLogin", "os"), d2, e3)}
        ELSE IF StepFails(fault = "Login")
        THEN {Run(h3, Fail("Login", "os"), d3, e4)}
        ELSE IF StepFails(~exists)
        THEN {Run(h3, Fail("waitForPathToExist", "timeout"), d4, e5)}
        ELSE IF StepFails(fam.err)
        THEN {Run(fam.host, Fail("FormatAndMount", "os"), d5, e6)}
        ELSE {Run(fam.host, Succeed(0), d5 \o fam.did, e6)}

\* iscsi.NewFromMountPointPath: ErrMountPointNotFound for a path that is
\* not a mount point, the mounter for one that is, or another error
NewFromMountPointPath(host) ==
    {"error"} \cup IF host.mounted THEN {"mounter"} ELSE {"ErrMountPointNotFound"}

\* variant: a missing mount point is a failure like any other error
MountPointNotFoundFails(err) == FALSE

\* UnmountDevice returns "Mount point not found. Nothing to do."
MountPointNotFound(err) == err = "ErrMountPointNotFound"

\* the runs of UnmountDevice(mountPath) after NewFromMountPointPath returned
UnmountRuns(host, lookup) ==
    IF lookup # "mounter"
    THEN IF MountPointNotFound(lookup)
         THEN {Run(host, Succeed(0), <<>>, <<>>)}
         ELSE {Run(host, Fail("NewFromMountPointPath", lookup), <<>>,
                   <<"NewFromMountPointPath">>)}
    ELSE LET h1 == [host EXCEPT !.mounted = FALSE, !.dir = FALSE]
             h2 == [h1 EXCEPT !.session = FALSE]
             h3 == [h2 EXCEPT !.db = FALSE, !.auto = FALSE]
         IN  {Run(host, Fail("UnmountPath", "os"), <<"UnmountPath">>, <<"UnmountPath">>),
              Run(h1, Fail("Logout", "os"), <<"UnmountPath", "Logout">>, <<"Logout">>),
              Run(h2, Fail("RemoveFromDB", "os"), <<"UnmountPath", "Logout", "RemoveFromDB">>,
                  <<"RemoveFromDB">>),
              Run(h3, Succeed(0), <<"UnmountPath", "Logout", "RemoveFromDB">>, <<>>)}

----------------------------------------------------------------------------
(* pkg/oci/client: the decisions of GetInstanceByNodeName and its two      *)
(* phases, findInstanceByNodeNameIsDisplayName (phase 1) and               *)
(* findInstanceByNodeNameIsVnic (phase 2).                                 *)

InstanceStates == {"RUNNING", "STOPPED"}

SubnetIds == {"s1", "s2"}

VnicAttachmentStates == {"ATTACHED", "DETACHED"}

NoInstance == [id |-> "", state |-> ""]

NoItem == [vnic |-> "", instance |-> "", subnet |-> "", state |-> ""]

NoResolve == [instance |-> NoInstance, err |-> "", n |-> 0, phase |-> 0]

\* variant: the lifecycle state is not looked at
IsRunningAny(state) == TRUE

\* LifecycleState == core.InstanceLifecycleStateRunning
IsRunning(state) == state = "RUNNING"

\* the loop over r.Items of one page: the running instances, in page order
RunningOf(items) == SelectSeq(items, LAMBDA it : IsRunning(it.state))

\* variant: the first of several running instances is taken
ExactlyOneOrMore(list) == Len(list) >= 1

\* len(running) != 1 is the count error of either phase
ExactlyOne(list) == Len(list) = 1

\* what a phase returns after its last page
PhaseResult(list, phase) ==
    IF ExactlyOne(list)
    THEN [instance |-> list[1], err |-> "", n |-> Len(list), phase |-> phase]
    ELSE [instance |-> NoInstance, err |-> "count", n |-> Len(list), phase |-> phase]

PhaseError(err, phase) == [instance |-> NoInstance, err |-> err, n |-> 0, phase |-> phase]

\* GetInstanceByNodeName goes on to phase 2 on any error of phase 1
Phase1Falls(err) == err # ""

isVnicAttachmentInSubnets(attachment, subnets) ==
    \E k \in 1..Len(subnets) : attachment.subnet = subnets[k]

\* the match of a vnic against the node name: the public IP equals it, or
\* the hostname label is not empty and a prefix of it
VnicMatches(vnic, nodeName) ==
    \/ vnic.publicIp # <<>> /\ vnic.publicIp[1] = nodeName
    \/ /\ vnic.hostnameLabel # <<>>
       /\ vnic.hostnameLabel[1] # <<>>
       /\ Len(nodeName) >= Len(vnic.hostnameLabel[1])
       /\ SubSeq(nodeName, 1, Len(vnic.hostnameLabel[1])) = vnic.hostnameLabel[1]

----------------------------------------------------------------------------
(* pkg/oci/driver: deriveVolumeOCID.  A string is the sequence of its       *)
(* characters.                                                             *)

ocidPrefix == <<"o", "c", "i", "d", "1", ".">>

\* fmt.Sprintf("ocid1.volume.oc1.%s.%s", region, name)
volumeOCIDTemplate(region, name) ==
    <<"o", "c", "i", "d", "1", ".", "v", "o", "l", "u", "m", "e", ".", "o", "c", "1", ".">>
        \o region \o <<".">> \o name

\* variant: no name is recognised as carrying the prefix
HasPrefixNever(str, prefix) == FALSE

\* strings.HasPrefix
HasPrefix(str, prefix) ==
    /\ Len(str) >= Len(prefix)
    /\ SubSeq(str, 1, Len(prefix)) = prefix

\* variant: the region key is used as it is for every region
deriveVolumeOCIDPlain(region, name) ==
    IF HasPrefix(name, ocidPrefix) THEN name
    ELSE volumeOCIDTemplate(region, name)

deriveVolumeOCID(region, name) ==
    IF HasPrefix(name, ocidPrefix) THEN name
    ELSE IF region = <<"f", "r", "a">>
    THEN volumeOCIDTemplate(<<"e", "u", "-", "f", "r", "a", "n", "k", "f", "u", "r", "t", "-", "1">>, name)
    ELSE volumeOCIDTemplate(region, name)

----------------------------------------------------------------------------
(* pkg/flexvolume: ExecDriver over a list of drivers.  A call-out is the    *)
(* command args[1], the number n of arguments (the executable included),    *)
(* its options ("bad": they do not parse, "nokey": they have no             *)
(* kubernetes.io/pvOrVolumeName, "ok") and the volume id that the options,  *)
(* args[2] or the last part of the mount directory name.                    *)

ocidVolPrefix == ocidPrefix \o <<"v", "o", "l", "u", "m", "e", ".">>

ocidFilestroagePrefix == ocidPrefix \o <<"f", "i", "l", "e", "s", "y", "s", "t", "e", "m", ".">>

\* OCIFlexvolumeDriver.Claim and OCIFilestorageDriver.Claim
Claim(driver, volumeId) ==
    IF driver = "block"
    THEN HasPrefix(volumeId, ocidVolPrefix) \/ ~HasPrefix(volumeId, ocidPrefix)
    ELSE HasPrefix(volumeId, ocidFilestroagePrefix)

\* the first driver of the list that claims the volume, "nil" for none
RECURSIVE ClaimVolume(_, _)
ClaimVolume(volumeId, drivers) ==
    IF drivers = <<>> THEN "nil"
    ELSE IF Claim(Head(drivers), volumeId) THEN Head(drivers)
    ELSE ClaimVolume(volumeId, Tail(drivers))

NotSupported == [status |-> "Not supported", from |-> "", why |-> "", device |-> 0]

\* a method called on the nil driver: the process panics and prints no status
Panic == [status |-> "panic", from |-> "", why |-> "", device |-> 0]

\* the status of a method of a driver: Mount and Unmount return
\* NotSupported, the other methods their own status
DriverCall(driver, method) ==
    IF driver = "nil" THEN Panic
    ELSE IF method \in {"Mount", "Unmount"} THEN NotSupported
    ELSE [status |-> "driver", from |-> driver, why |-> method, device |-> 0]

\* driver := ClaimVolume(volumeId, drivers)
\* if driver != nil { return Fail("Unable to find flexdriver ...") }
\* return driver.<method>(...)
Dispatch(drivers, volumeId, method) ==
    LET driver == ClaimVolume(volumeId, drivers)
    IN  IF driver # "nil" THEN Fail("ExecDriver", "Unable to find flexdriver")
        ELSE DriverCall(driver, method)

\* the number of arguments each command expects, and its driver method
Expected ==
    [attach |-> 4, detach |-> 4, waitforattach |-> 4, isattached |-> 4,
     mountdevice |-> 5, unmountdevice |-> 3, mount |-> 4, unmount |-> 3]

MethodOf ==
    [attach |-> "Attach", detach |-> "Detach", waitforattach |-> "WaitForAttach",
     isattached |-> "IsAttached", mountdevice |-> "MountDevice",
     unmountdevice |-> "UnmountDevice", mount |-> "Mount", unmount |-> "Unmount"]

ExecDriver(drivers, call) ==
    IF call.n < 2 THEN Fail("ExecDriver", "Expected at least one argument")
    ELSE IF call.cmd = "init" THEN Succeed(0)
    ELSE IF call.cmd = "getvolumename" THEN NotSupported
    ELSE IF call.cmd \notin DOMAIN Expected THEN Fail("ExecDriver", "Invalid command")
    ELSE IF call.n # Expected[call.cmd] THEN Fail("ExecDriver", "arguments")
    ELSE IF call.cmd \in {"detach", "unmountdevice", "unmount"}
    THEN Dispatch(drivers, call.volume, MethodOf[call.cmd])
    ELSE IF call.opts = "bad" THEN Fail("ExecDriver", "options")
    ELSE IF call.opts = "nokey" THEN Fail("ExecDriver", "key not found")
    ELSE IF call.cmd = "attach"
    THEN DriverCall(ClaimVolume(call.volume, drivers), "Attach")
    ELSE Dispatch(drivers, call.volume, MethodOf[call.cmd])

----------------------------------------------------------------------------
(* pkg/oci/driver: the decisions of Attach *)

\* the node name resolved to its compute instance
InstanceOf(node) == IF node = "node1" THEN "inst1" ELSE "inst2"

\* variant: no conflict recovery, every failed AttachVolume fails the call-out
IsConflictNever(code) == FALSE

\* variant: every failed AttachVolume takes the recovery path
IsConflictAnyError(code) == code # 200

\* statusCode != 409 fails the call-out; 409 takes the recovery path
IsConflict(code) == code = StatusConflict

\* variant: no ownership check, any attachment found after a 409 is taken
AttachedElsewhereNever(attachment, instanceId) == FALSE

\* variant: every attachment found after a 409 counts as another instance's
AttachedElsewhereAlways(attachment, instanceId) == TRUE

\* variant: the ownership check inverted
AttachedElsewhereInverted(attachment, instanceId) == attachment.instance = instanceId

\* the ownership check on the attachment found after a 409
AttachedElsewhere(attachment, instanceId) == attachment.instance # instanceId

\* variant: the error of the attach call is kept and reported
FindFailureOriginal(attachErr, findErr, why) == Fail(attachErr, why)

\* what Attach returns when the lookup after a 409 fails: the lookup's error
FindFailure(attachErr, findErr, why) == Fail(findErr, why)

\* the type assertion and the device path of the ATTACHED attachment
AttachResult(attachment) ==
    IF attachment.iscsi THEN Succeed(attachment.id) ELSE Fail("", "iscsi")

\* what IsAttached returns after FindVolumeAttachment returned err ("" for
\* none): Success in both cases, with the attached flag
IsAttachedStatus(err) ==
    [status |-> "Success", message |-> err, attached |-> (err = ""), device |-> 0]

\* what WaitForAttach returns: Success with the device it was given
WaitForAttachStatus(mountDevice) ==
    [status |-> "Success", message |-> "", attached |-> FALSE, device |-> mountDevice]

\* flexvolume.Fail as IsAttached returns it
FailStatus(err) ==
    [status |-> "Failure", message |-> err, attached |-> FALSE, device |-> 0]

----------------------------------------------------------------------------
(* The remote service *)

Entry(id) == [id |-> id, volume |-> attachments[id].volume,
              instance |-> attachments[id].instance,
              state |-> attachments[id].state, iscsi |-> attachments[id].iscsi]

Ids == 1..Len(attachments)

\* the service counts an attachment as in use while ATTACHING or ATTACHED
InUse(state) == state \in {"ATTACHING", "ATTACHED"}

HasLive(volume) ==
    \E id \in Ids : attachments[id].volume = volume /\ InUse(attachments[id].state)

\* a detach still in progress may also make the service answer 409
HasBusy(volume) ==
    \E id \in Ids : attachments[id].volume = volume /\ attachments[id].state # "DETACHED"

\* the attachments of one volume, in list order
Listing(volume) ==
    SelectSeq([id \in Ids |-> Entry(id)], LAMBDA a : a.volume = volume)

\* a listing cut into pages; an empty listing is one empty page
Paginate(list, size) ==
    LET n == IF Len(list) = 0 THEN 1 ELSE (Len(list) + size - 1) \div size
    IN  [p \in 1..n |-> SubSeq(list, (p - 1) * size + 1, Min(p * size, Len(list)))]

ListVolumeAttachments(volume) == Paginate(Listing(volume), PageSize)

NewAttachment(volume, instance, iscsi) ==
    [volume |-> volume, instance |-> instance, state |-> "ATTACHING", iscsi |-> iscsi]

\* history kept for the retry properties
AttachAccepted(volume) ==
    detachRun' = IF detachRun.volume = volume THEN NoDetach ELSE detachRun

DetachAccepted(volume) ==
    okAttach' = IF okAttach.volume = volume THEN NoAttach ELSE okAttach

\* the service moves an attachment on: ATTACHING -> ATTACHED, DETACHING -> DETACHED
Progress(id) ==
    /\ attachments[id].state \in {"ATTACHING", "DETACHING"}
    /\ attachments' = [attachments EXCEPT ![id].state =
                          IF @ = "ATTACHING" THEN "ATTACHED" ELSE "DETACHED"]
    /\ UNCHANGED <<drv, hist, wvars, fvars, xvars>>

\* another client of the service attaches a volume
OtherAttach(volume, instance, iscsi) ==
    /\ ~HasLive(volume)
    /\ Len(attachments) < MaxAttachments
    /\ attachments' = Append(attachments, NewAttachment(volume, instance, iscsi))
    /\ AttachAccepted(volume)
    /\ UNCHANGED <<drv, okAttach, wvars, fvars, xvars>>

\* another client of the service detaches an attachment
OtherDetach(id) ==
    /\ InUse(attachments[id].state)
    /\ attachments' = [attachments EXCEPT ![id].state = "DETACHING"]
    /\ DetachAccepted(attachments[id].volume)
    /\ UNCHANGED <<drv, detachRun, wvars, fvars, xvars>>

----------------------------------------------------------------------------
(* Call-outs of the block-volume driver.  The orchestrator runs one        *)
(* call-out after the other; each step below is one remote call of the     *)
(* call-out together with the code up to the next remote call.             *)

Begin(op, volume, node) ==
    /\ pc = "idle"
    /\ pc' = "start"
    /\ cur' = [op |-> op, volume |-> volume, node |-> node]
    /\ att' = 0
    /\ i' = 0
    /\ statusCode' = 0
    /\ found' = 0
    /\ calls' = NoCalls
    /\ last' = NoResult
    /\ UNCHANGED <<attachments, hist, wvars, fvars, xvars>>

\* Attach returns: the status goes to the orchestrator, the locals are gone
ReturnAttach(result) ==
    /\ pc' = "idle"
    /\ last' = result
    /\ att' = 0
    /\ i' = 0
    /\ okAttach' =
          IF okAttach.volume = cur.volume /\ okAttach.node = cur.node
          THEN [okAttach EXCEPT !.count = 2]
          ELSE IF result.status = "Success"
          THEN [volume |-> cur.volume, node |-> cur.node,
                device |-> result.device, count |-> 1]
          ELSE okAttach

\* Detach returns
ReturnDetach(result) ==
    /\ pc' = "idle"
    /\ last' = result
    /\ att' = 0
    /\ i' = 0
    /\ detachRun' =
          IF detachRun.volume # cur.volume THEN detachRun
          ELSE IF detachRun.count >= 1 THEN [detachRun EXCEPT !.count = 2]
          ELSE IF result.status = "Success" THEN [detachRun EXCEPT !.count = 1]
          ELSE NoDetach

\* Attach: client.New and GetInstanceByNodeName
AttachResolve ==
    /\ pc = "start"
    /\ cur.op = "Attach"
    /\ \/ ReturnAttach(Fail("client.New", "config"))
       \/ ReturnAttach(Fail("GetInstanceByNodeName", "resolve"))
       \/ pc' = "attach" /\ UNCHANGED <<att, i, last, okAttach>>
    /\ UNCHANGED <<attachments, cur, statusCode, found, calls, detachRun, wvars, fvars, xvars>>

\* Attach after AttachVolume answered with this status code and attachment
AfterAttachVolume(code, id) ==
    /\ statusCode' = code
    /\ IF code = 200
       THEN /\ att' = id
            /\ pc' = "wait"
            /\ UNCHANGED <<i, last, okAttach>>
       ELSE IF ~IsConflict(code)
       THEN ReturnAttach(Fail("AttachVolume", "api"))
       ELSE /\ pc' = "find"
            /\ UNCHANGED <<att, i, last, okAttach>>

\* Attach: the AttachVolume request
AttachRequest ==
    /\ pc = "attach"
    /\ calls' = [calls EXCEPT !.attach = @ + 1]
    /\ \/ /\ \E code \in ErrorStatusCodes : AfterAttachVolume(code, 0)
          /\ UNCHANGED <<attachments, detachRun>>
       \/ /\ HasBusy(cur.volume)
          /\ AfterAttachVolume(StatusConflict, 0)
          /\ UNCHANGED <<attachments, detachRun>>
       \/ /\ ~HasLive(cur.volume)
          /\ Len(attachments) < MaxAttachments
          /\ attachments' = Append(attachments,
                               NewAttachment(cur.volume, InstanceOf(cur.node), TRUE))
          /\ AttachAccepted(cur.volume)
          /\ AfterAttachVolume(200, Len(attachments) + 1)
    /\ UNCHANGED <<cur, found, wvars, fvars, xvars>>

\* Attach after the lookup of the 409 path returned attachment a
AfterFind(a) ==
    IF a = NotFound
    THEN /\ ReturnAttach(FindFailure("AttachVolume", "FindVolumeAttachment", "notfound"))
         /\ UNCHANGED found
    ELSE /\ found' = a.id
         /\ IF AttachedElsewhere(a, InstanceOf(cur.node))
            THEN ReturnAttach(Fail("", "owner"))
            ELSE /\ att' = a.id
                 /\ pc' = "wait"
                 /\ UNCHANGED <<i, last, okAttach>>

\* Attach: FindVolumeAttachment after a 409
AttachFind ==
    /\ pc = "find"
    /\ calls' = [calls EXCEPT !.list = @ + 1]
    /\ \/ /\ ReturnAttach(FindFailure("AttachVolume", "FindVolumeAttachment", "api"))
          /\ UNCHANGED found
       \/ AfterFind(FindVolumeAttachment(ListVolumeAttachments(cur.volume)))
    /\ UNCHANGED <<attachments, cur, statusCode, detachRun, wvars, fvars, xvars>>

\* Attach: one iteration of WaitForVolumeAttached, and what follows its return
AttachWait ==
    /\ pc = "wait"
    /\ cur.op = "Attach"
    /\ calls' = [calls EXCEPT !.polled = TRUE]
    /\ \/ ReturnAttach(Fail("WaitForVolumeAttached", "api"))
       \/ LET case == WaitAttachedCase(attachments[att].state)
          IN  IF case = "sleep"
              THEN IF RetryAllowed(i + 1)
                   THEN i' = i + 1 /\ UNCHANGED <<pc, att, last, okAttach>>
                   ELSE ReturnAttach(Fail("WaitForVolumeAttached", "retries"))
              ELSE IF case = "return"
              THEN ReturnAttach(AttachResult(Entry(att)))
              ELSE ReturnAttach(Fail("WaitForVolumeAttached", "state"))
    /\ UNCHANGED <<attachments, cur, statusCode, found, detachRun, wvars, fvars, xvars>>

\* Detach: client.New and FindVolumeAttachment
DetachFind ==
    /\ pc = "start"
    /\ cur.op = "Detach"
    /\ \/ /\ ReturnDetach(Fail("client.New", "config"))
          /\ UNCHANGED calls
       \/ /\ calls' = [calls EXCEPT !.list = @ + 1]
          /\ ReturnDetach(Fail("FindVolumeAttachment", "api"))
       \/ /\ calls' = [calls EXCEPT !.list = @ + 1]
          /\ LET a == FindVolumeAttachment(ListVolumeAttachments(cur.volume))
             IN  IF a = NotFound
                 THEN ReturnDetach(Fail("FindVolumeAttachment", "notfound"))
                 ELSE /\ att' = a.id
                      /\ pc' = "detach"
                      /\ UNCHANGED <<i, last, detachRun>>
    /\ UNCHANGED <<attachments, cur, statusCode, found, okAttach, wvars, fvars, xvars>>

\* Detach: the DetachVolume request; the service accepts it for an attachment
\* in use and rejects it otherwise
DetachRequest ==
    /\ pc = "detach"
    /\ calls' = [calls EXCEPT !.detach = @ + 1]
    /\ \/ /\ ReturnDetach(Fail("DetachVolume", "api"))
          /\ UNCHANGED <<attachments, okAttach>>
       \/ /\ InUse(attachments[att].state)
          /\ attachments' = [attachments EXCEPT ![att].state = "DETACHING"]
          /\ DetachAccepted(cur.volume)
          /\ detachRun' = IF detachRun.volume = cur.volume /\ detachRun.count >= 1
                          THEN detachRun
                          ELSE [volume |-> cur.volume, count |-> 0]
          /\ pc' = "wait"
          /\ UNCHANGED <<att, i, last>>
    /\ UNCHANGED <<cur, statusCode, found, wvars, fvars, xvars>>

\* Detach: one iteration of WaitForVolumeDetached
DetachWait ==
    /\ pc = "wait"
    /\ cur.op = "Detach"
    /\ calls' = [calls EXCEPT !.polled = TRUE]
    /\ \/ ReturnDetach(Fail("WaitForVolumeDetached", "api"))
       \/ LET case == WaitDetachedCase(attachments[att].state)
          IN  IF case = "sleep"
              THEN IF RetryAllowed(i + 1)
                   THEN i' = i + 1 /\ UNCHANGED <<pc, att, last, detachRun>>
                   ELSE ReturnDetach(Fail("WaitForVolumeDetached", "retries"))
              ELSE IF case = "return"
              THEN ReturnDetach(Succeed(0))
              ELSE ReturnDetach(Fail("WaitForVolumeDetached", "state"))
    /\ UNCHANGED <<attachments, cur, statusCode, found, okAttach, wvars, fvars, xvars>>

----------------------------------------------------------------------------
(* Spec: the call-outs against the remote service *)

WaitOff ==
    /\ wkind = ""
    /\ wpc = "off"
    /\ wi = 0
    /\ wobs = <<>>
    /\ wsleeps = 0
    /\ wres = ""

FindOff ==
    /\ fpages = <<>>
    /\ fpc = "off"
    /\ fres = NotFound

DeriveOff ==
    /\ regionKey = <<>>
    /\ volumeName = <<>>
    /\ dpc = "off"
    /\ volumeOCID = <<>>
    /\ volumeOCID2 = <<>>

NoCache == [vnics |-> EmptyMap, file |-> "nil", locks |-> 0, held |-> FALSE, writes |-> 0]

\* served1: RUNNING instances the phase-1 pages held (2 stands for two or
\* more); p1: how phase 1 ended; served2: RUNNING instances GetInstance
\* returned in phase 2
NoHist == [served1 |-> 0, p1 |-> "", served2 |-> 0]

ResolveOff ==
    /\ rpc = "off"
    /\ rcache = NoCache
    /\ rfile = <<>>
    /\ running = <<>>
    /\ rsubnets = <<>>
    /\ rpage = 0
    /\ rleft = 0
    /\ rmore = FALSE
    /\ ritem = NoItem
    /\ rres = NoResolve
    /\ rhist = NoHist

Procs == 1..MaxProcs

NoProc == [pc |-> "idle", vnics |-> EmptyMap, file |-> "nil", closes |-> 0, err |-> "", opens |-> 0]

NoGet == [proc |-> 0, id |-> "", value |-> NoVnic, ok |-> FALSE]

CacheOff ==
    /\ cfile = <<>>
    /\ clock = <<>>
    /\ cproc = <<>>
    /\ clast = NoGet
    /\ cpend = EmptyMap
    /\ cexpect = EmptyMap

\* a node on which nothing of the volume is set up; dir: the mount
\* directory exists, fs: the filesystem on the volume ("" for none)
NoHost == [db |-> FALSE, auto |-> FALSE, session |-> FALSE, fs |-> "",
           mounted |-> FALSE, dir |-> FALSE]

NoMount == [op |-> "", result |-> NoResult, did |-> <<>>, was |-> FALSE,
            errs |-> <<>>, fstype |-> ""]

MountOff ==
    /\ mhost = NoHost
    /\ mlast = NoMount
    /\ mprev = NoMount

ExportOff ==
    /\ exports = <<>>
    /\ xpc = "idle"
    /\ xpath = ""
    /\ export = ""
    /\ xfound = FALSE
    /\ xpolls = 0
    /\ xres = ""

NfsDirs == {"/mnt/a", "/mnt/b"}

NoSource == [ip |-> "", device |-> <<>>]

NoNfsHost == [dirs |-> {}, mounts |-> [dir \in NfsDirs |-> NoSource]]

NoNfs == [op |-> "", dir |-> "", device |-> <<>>, status |-> NoResult, did |-> FALSE]

NfsOff ==
    /\ nhost = NoNfsHost
    /\ nlast = NoNfs

ParOff == invs = <<>>

FrameOff ==
    /\ tcall = [driver |-> "", method |-> ""]
    /\ tdone = {}

NoRegistryCall == [op |-> "", name |-> "", driver |-> "nil"]

NoLookup == [driver |-> "nil", err |-> ""]

RegistryOff ==
    /\ gdrivers = <<>>
    /\ gfirst = <<>>
    /\ gcall = NoRegistryCall
    /\ gres = NoLookup

NoKill == [volume |-> "", node |-> "", att |-> 0]

RetryOff == killed = NoKill

NoQuery == [op |-> "", volume |-> "", node |-> "",
            result |-> [status |-> "", message |-> "", attached |-> FALSE, device |-> 0],
            err |-> "", seen |-> NotFound, live |-> {}]

ObserveOff == qlast = NoQuery

NoExec == [cmd |-> "", n |-> 0, opts |-> "", volume |-> <<>>]

ExecOff ==
    /\ edrivers = <<>>
    /\ ecall = NoExec
    /\ eres = NoResult

\* the specifications other than the one that runs are off
OthersOff(on) ==
    /\ "derive" \in on \/ DeriveOff
    /\ "resolve" \in on \/ ResolveOff
    /\ "cache" \in on \/ CacheOff
    /\ "mount" \in on \/ MountOff
    /\ "exec" \in on \/ ExecOff
    /\ "observe" \in on \/ ObserveOff
    /\ "retry" \in on \/ RetryOff
    /\ "export" \in on \/ ExportOff
    /\ "nfs" \in on \/ NfsOff
    /\ "par" \in on \/ ParOff
    /\ "frame" \in on \/ FrameOff
    /\ "registry" \in on \/ RegistryOff

DriverOff ==
    /\ attachments = <<>>
    /\ pc = "idle"
    /\ cur = NoCall
    /\ att = 0
    /\ i = 0
    /\ statusCode = 0
    /\ found = 0
    /\ calls = NoCalls
    /\ last = NoResult
    /\ okAttach = NoAttach
    /\ detachRun = NoDetach

Init == DriverOff /\ WaitOff /\ FindOff /\ OthersOff({})

Next ==
    \/ \E op \in {"Attach", "Detach"}, volume \in Volumes, node \in Nodes :
          Begin(op, volume, node)
    \/ AttachResolve
    \/ AttachRequest
    \/ AttachFind
    \/ AttachWait
    \/ DetachFind
    \/ DetachRequest
    \/ DetachWait
    \/ \E id \in Ids : Progress(id)
    \/ \E volume \in Volumes, instance \in Instances, iscsi \in BOOLEAN :
          OtherAttach(volume, instance, iscsi)
    \/ \E id \in Ids : OtherDetach(id)

Spec == Init /\ [][Next]_vars

----------------------------------------------------------------------------
(* SpecRetry: the call-outs of Spec, where the process of an Attach may be  *)
(* killed while it polls the attachment its attach request created.  The    *)
(* process prints no status and leaves the attachment as it is; the         *)
(* orchestrator goes on with further call-outs.                             *)

Kill ==
    /\ pc = "wait"
    /\ cur.op = "Attach"
    /\ statusCode = 200
    /\ killed = NoKill
    /\ killed' = [volume |-> cur.volume, node |-> cur.node, att |-> att]
    /\ pc' = "idle"
    /\ att' = 0
    /\ i' = 0
    /\ UNCHANGED <<attachments, cur, statusCode, found, calls, last, hist, wvars, fvars,
                   dvars, rvars, cvars, mvars, evars, qvars, svars, nvars, pvars, tvars, gvars>>

InitRetry == DriverOff /\ WaitOff /\ FindOff /\ OthersOff({})

\* the orchestrator retries the Attach; detach requests come from any client
NextRetry ==
    \/ \E volume \in Volumes, node \in Nodes : Begin("Attach", volume, node)
    \/ AttachResolve
    \/ AttachRequest
    \/ AttachFind
    \/ AttachWait
    \/ Kill
    \/ \E id \in Ids : Progress(id)
    \/ \E volume \in Volumes, instance \in Instances, iscsi \in BOOLEAN :
          OtherAttach(volume, instance, iscsi)
    \/ \E id \in Ids : OtherDetach(id)

SpecRetry == InitRetry /\ [][NextRetry]_vars

----------------------------------------------------------------------------
(* SpecPar: two invocations of Attach for one volume run concurrently, each *)
(* a process of its own; their remote calls interleave in any order, and    *)
(* other clients of the service may detach.  Each step is one remote call   *)
(* of an invocation together with the code up to its next remote call.      *)
(* The first invocation is the one for node1: the two are interchangeable.  *)

Invocations == {1, 2}

ParVolume == "vol1"

NewInvocation(node) ==
    [pc |-> "start", node |-> node, att |-> 0, i |-> 0, statusCode |-> 0, result |-> NoResult]

\* the invocation returns this status and its process ends
ParReturn(p, result) ==
    invs' = [invs EXCEPT ![p].pc = "done", ![p].result = result, ![p].att = 0, ![p].i = 0]

\* client.New and GetInstanceByNodeName
ParResolve(p) ==
    /\ invs[p].pc = "start"
    /\ \/ ParReturn(p, Fail("client.New", "config"))
       \/ ParReturn(p, Fail("GetInstanceByNodeName", "resolve"))
       \/ invs' = [invs EXCEPT ![p].pc = "attach"]
    /\ UNCHANGED <<base, dvars, rvars, cvars, mvars, evars, kvars, qvars, svars, nvars, tvars, gvars>>

\* the invocation after AttachVolume answered with this status code and attachment
ParAfterAttachVolume(p, code, id) ==
    IF code = 200
    THEN invs' = [invs EXCEPT ![p].statusCode = code, ![p].att = id, ![p].pc = "wait"]
    ELSE IF ~IsConflict(code)
    THEN invs' = [invs EXCEPT ![p].statusCode = code, ![p].pc = "done",
                              ![p].result = Fail("AttachVolume", "api")]
    ELSE invs' = [invs EXCEPT ![p].statusCode = code, ![p].pc = "find"]

\* the AttachVolume request
ParRequest(p) ==
    /\ invs[p].pc = "attach"
    /\ \/ /\ \E code \in ErrorStatusCodes : ParAfterAttachVolume(p, code, 0)
          /\ UNCHANGED attachments
       \/ /\ HasBusy(ParVolume)
          /\ ParAfterAttachVolume(p, StatusConflict, 0)
          /\ UNCHANGED attachments
       \/ /\ ~HasLive(ParVolume)
          /\ Len(attachments) < MaxAttachments
          /\ attachments' = Append(attachments,
                               NewAttachment(ParVolume, InstanceOf(invs[p].node), TRUE))
          /\ ParAfterAttachVolume(p, 200, Len(attachments) + 1)
    /\ UNCHANGED <<drv, hist, wvars, fvars, dvars, rvars, cvars, mvars, evars, kvars, qvars,
                   svars, nvars, tvars, gvars>>

\* FindVolumeAttachment after a 409, and the ownership check
ParFind(p) ==
    /\ invs[p].pc = "find"
    /\ \/ ParReturn(p, FindFailure("AttachVolume", "FindVolumeAttachment", "api"))
       \/ LET a == FindVolumeAttachment(ListVolumeAttachments(ParVolume))
          IN  IF a = NotFound
              THEN ParReturn(p, FindFailure("AttachVolume", "FindVolumeAttachment", "notfound"))
              ELSE IF AttachedElsewhere(a, InstanceOf(invs[p].node))
              THEN ParReturn(p, Fail("", "owner"))
              ELSE invs' = [invs EXCEPT ![p].att = a.id, ![p].pc = "wait"]
    /\ UNCHANGED <<base, dvars, rvars, cvars, mvars, evars, kvars, qvars, svars, nvars, tvars, gvars>>

\* one iteration of WaitForVolumeAttached, and what follows its return
ParWait(p) ==
    /\ invs[p].pc = "wait"
    /\ \/ ParReturn(p, Fail("WaitForVolumeAttached", "api"))
       \/ LET case == WaitAttachedCase(attachments[invs[p].att].state)
          IN  IF case = "sleep"
              THEN IF RetryAllowed(invs[p].i + 1)
                   THEN invs' = [invs EXCEPT ![p].i = @ + 1]
                   ELSE ParReturn(p, Fail("WaitForVolumeAttached", "retries"))
              ELSE IF case = "return"
              THEN ParReturn(p, AttachResult(Entry(invs[p].att)))
              ELSE ParReturn(p, Fail("WaitForVolumeAttached", "state"))
    /\ UNCHANGED <<base, dvars, rvars, cvars, mvars, evars, kvars, qvars, svars, nvars, tvars, gvars>>

InitPar ==
    /\ DriverOff
    /\ WaitOff
    /\ FindOff
    /\ OthersOff({"par"})
    /\ \E node \in Nodes :
          invs = [p \in Invocations |-> NewInvocation(IF p = 1 THEN "node1" ELSE node)]

NextPar ==
    \/ \E p \in Invocations : ParResolve(p)
    \/ \E p \in Invocations : ParRequest(p)
    \/ \E p \in Invocations : ParFind(p)
    \/ \E p \in Invocations : ParWait(p)
    \/ \E id \in Ids : Progress(id)
    \/ \E id \in Ids : OtherDetach(id)

SpecPar == InitPar /\ [][NextPar]_vars

----------------------------------------------------------------------------
(* SpecFrame: what each call-out of the two drivers reaches: the requests   *)
(* it sends to the cloud API and the operations it makes on the node.  A    *)
(* call-out makes any part of the calls its code contains (it returns at    *)
(* the first failure and skips the branches it does not take).              *)

\* requests to the cloud API
RemoteApi ==
    {"ListInstances", "ListSubnets", "ListVnicAttachments", "GetVnic", "GetInstance",
     "AttachVolume", "DetachVolume", "ListVolumeAttachments", "GetVolumeAttachment",
     "GetFileSystem", "GetMountTarget", "GetPrivateIp", "ListExports", "CreateExport",
     "GetExport", "DeleteExport"}

\* operations on the node: the iSCSI initiator and its database, mounts
LocalOps ==
    {"DeviceOpened", "AddToDB", "SetAutomaticLogin", "Login", "waitForPathToExist",
     "FormatAndMount", "NewFromMountPointPath", "UnmountPath", "Logout", "RemoveFromDB",
     "IsLikelyNotMountPoint", "MkdirAll", "Mount", "Unmount"}

FrameDrivers == {"oci", "filestorage"}

FrameMethods ==
    {"Attach", "Detach", "WaitForAttach", "IsAttached", "MountDevice", "UnmountDevice",
     "Mount", "Unmount"}

\* the calls of GetInstanceByNodeName
ResolveCalls == {"ListInstances", "ListSubnets", "ListVnicAttachments", "GetVnic", "GetInstance"}

\* the calls in the methods of OCIFlexvolumeDriver
BlockCalls(method) ==
    CASE method = "Attach" ->
            ResolveCalls \cup {"AttachVolume", "ListVolumeAttachments", "GetVolumeAttachment"}
      [] method = "Detach" -> {"ListVolumeAttachments", "DetachVolume", "GetVolumeAttachment"}
      [] method = "IsAttached" -> {"ListVolumeAttachments"}
      [] method = "MountDevice" ->
            {"DeviceOpened", "AddToDB", "SetAutomaticLogin", "Login", "waitForPathToExist",
             "FormatAndMount"}
      [] method = "UnmountDevice" ->
            {"NewFromMountPointPath", "UnmountPath", "Logout", "RemoveFromDB"}
      [] OTHER -> {}

\* the calls of OCIFilestorageDriver up to the export path
MountTargetCalls == {"GetFileSystem", "GetMountTarget", "GetPrivateIp"}

\* the calls in the methods of OCIFilestorageDriver
FilestorageCalls(method) ==
    CASE method = "Attach" -> MountTargetCalls \cup {"ListExports", "CreateExport", "GetExport"}
      [] method = "Detach" -> MountTargetCalls \cup {"ListExports", "DeleteExport"}
      [] method = "IsAttached" -> MountTargetCalls \cup {"ListExports"}
      [] method = "MountDevice" -> {"IsLikelyNotMountPoint", "MkdirAll", "Mount"}
      [] method = "UnmountDevice" -> {"Unmount"}
      [] OTHER -> {}

\* variant: MountDevice waits for the attachment itself, as the comment on
\* WaitForAttach says
CallsOfWaitInMount(driver, method) ==
    IF driver = "oci"
    THEN IF method = "MountDevice"
         THEN {"GetVolumeAttachment"} \cup BlockCalls(method)
         ELSE BlockCalls(method)
    ELSE FilestorageCalls(method)

CallsOf(driver, method) ==
    IF driver = "oci" THEN BlockCalls(method) ELSE FilestorageCalls(method)

FrameCallOut(driver, method, done) ==
    /\ done \subseteq CallsOf(driver, method)
    /\ tcall' = [driver |-> driver, method |-> method]
    /\ tdone' = done
    /\ UNCHANGED <<base, dvars, rvars, cvars, mvars, evars, kvars, qvars, svars, nvars, pvars, gvars>>

InitFrame ==
    /\ DriverOff
    /\ WaitOff
    /\ FindOff
    /\ OthersOff({"frame"})
    /\ tcall = [driver |-> "", method |-> ""]
    /\ tdone = {}

NextFrame ==
    \E driver \in FrameDrivers, method \in FrameMethods :
       \E done \in SUBSET CallsOf(driver, method) : FrameCallOut(driver, method, done)

SpecFrame == InitFrame /\ [][NextFrame]_vars

----------------------------------------------------------------------------
(* SpecDetach: the Detach call-out against a remote service that answers a  *)
(* detach request before the attachment shows the state DETACHING: the      *)
(* request is accepted, and the state changes in a step of the service.     *)

\* Detach: the DetachVolume request, accepted, the attachment read as before
DetachRequestPending ==
    /\ pc = "detach"
    /\ calls' = [calls EXCEPT !.detach = @ + 1]
    /\ InUse(attachments[att].state)
    /\ DetachAccepted(cur.volume)
    /\ detachRun' = IF detachRun.volume = cur.volume /\ detachRun.count >= 1
                    THEN detachRun
                    ELSE [volume |-> cur.volume, count |-> 0]
    /\ pc' = "wait"
    /\ UNCHANGED <<attachments, att, i, last, cur, statusCode, found, wvars, fvars, xvars>>

InitDetach == DriverOff /\ WaitOff /\ FindOff /\ OthersOff({})

NextDetach ==
    \/ \E volume \in Volumes, node \in Nodes : Begin("Detach", volume, node)
    \/ DetachFind
    \/ DetachRequest
    \/ DetachRequestPending
    \/ DetachWait
    \/ \E id \in Ids : Progress(id)
    \/ \E volume \in Volumes, instance \in Instances, iscsi \in BOOLEAN :
          OtherAttach(volume, instance, iscsi)
    \/ \E id \in Ids : OtherDetach(id)

SpecDetach == InitDetach /\ [][NextDetach]_vars

----------------------------------------------------------------------------
(* SpecWait: WaitForVolumeAttached and WaitForVolumeDetached against any   *)
(* sequence of poll results.  wobs records each poll: the lifecycle state  *)
(* it observed, or "ERR" when the get-attachment call itself failed.       *)

WaitCase(kind, state) ==
    IF kind = "attach" THEN WaitAttachedCase(state) ELSE WaitDetachedCase(state)

\* a poll of the loop body that observes this state, and the switch on it
WaitPoll(state) ==
    /\ wpc = "poll"
    /\ RetryAllowed(wi)
    /\ wobs' = Append(wobs, state)
    /\ LET case == WaitCase(wkind, state)
       IN  IF case = "sleep"
           THEN wpc' = "sleep" /\ UNCHANGED wres
           ELSE IF case = "return"
           THEN wpc' = "done" /\ wres' = "ok"
           ELSE wpc' = "done" /\ wres' = "unexpected"
    /\ UNCHANGED <<wkind, wi, wsleeps>>

\* a poll whose get-attachment call fails
WaitPollError ==
    /\ wpc = "poll"
    /\ RetryAllowed(wi)
    /\ wobs' = Append(wobs, "ERR")
    /\ wpc' = "done"
    /\ wres' = "api"
    /\ UNCHANGED <<wkind, wi, wsleeps>>

\* time.Sleep(ociWaitDuration), then i++
WaitSleep ==
    /\ wpc = "sleep"
    /\ wsleeps' = wsleeps + 1
    /\ wi' = wi + 1
    /\ wpc' = "poll"
    /\ UNCHANGED <<wkind, wobs, wres>>

\* the loop condition fails: the retry-budget error
WaitExhausted ==
    /\ wpc = "poll"
    /\ ~RetryAllowed(wi)
    /\ wpc' = "done"
    /\ wres' = "retries"
    /\ UNCHANGED <<wkind, wi, wobs, wsleeps>>

InitWait ==
    /\ DriverOff
    /\ FindOff
    /\ OthersOff({})
    /\ wkind \in {"attach", "detach"}
    /\ wpc = "poll"
    /\ wi = 0
    /\ wobs = <<>>
    /\ wsleeps = 0
    /\ wres = ""

NextWait ==
    /\ \/ \E state \in ObservableStates : WaitPoll(state)
       \/ WaitPollError
       \/ WaitSleep
       \/ WaitExhausted
    /\ UNCHANGED <<attachments, drv, hist, fvars, xvars>>

SpecWait == InitWait /\ [][NextWait]_vars

\* the loop is sequential code: whenever it can take a step it does
FairSpecWait == SpecWait /\ WF_vars(NextWait)

----------------------------------------------------------------------------
(* SpecFind: FindVolumeAttachment over any paginated listing.  fpages      *)
(* holds the lifecycle states of the entries, page by page; the id of an   *)
(* entry is its position in the whole listing.                             *)

RECURSIVE Flatten(_)
Flatten(pages) ==
    IF pages = <<>> THEN <<>> ELSE Head(pages) \o Flatten(Tail(pages))

\* the pages as ListVolumeAttachments returns them
FindPages ==
    [p \in 1..Len(fpages) |->
        [k \in 1..Len(fpages[p]) |->
            [id |-> Len(Flatten(SubSeq(fpages, 1, p - 1))) + k,
             volume |-> "vol1", instance |-> "inst1",
             state |-> fpages[p][k], iscsi |-> TRUE]]]

FindCall ==
    /\ fpc = "call"
    /\ fres' = FindVolumeAttachment(FindPages)
    /\ fpc' = "done"
    /\ UNCHANGED <<attachments, drv, hist, wvars, fpages, xvars>>

PagesUpTo(len) == UNION {[1..n -> LifecycleStates] : n \in 0..len}

InitFind ==
    /\ DriverOff
    /\ WaitOff
    /\ OthersOff({})
    /\ fpages \in UNION {[1..n -> PagesUpTo(MaxPageLen)] : n \in 1..MaxPages}
    /\ fpc = "call"
    /\ fres = NotFound

NextFind == FindCall

SpecFind == InitFind /\ [][NextFind]_vars

----------------------------------------------------------------------------
(* SpecDerive: deriveVolumeOCID on a volume name, and again on its own     *)
(* result.  The names are the leading parts of the prefix "ocid1."         *)
(* followed by a short tail, and the name of the unit test.                *)

RegionKeys == {<<"p", "h", "x">>, <<"i", "a", "d">>, <<"f", "r", "a">>}

Tails == UNION {[1..n -> {"a", "."}] : n \in 0..MaxTailLen}

VolumeNames ==
    {SubSeq(ocidPrefix, 1, k) \o tail : k \in 0..Len(ocidPrefix), tail \in Tails}
        \cup {<<"a", "a", "a", "a", "a", "a">>}

DeriveCall ==
    /\ dpc = "call"
    /\ volumeOCID' = deriveVolumeOCID(regionKey, volumeName)
    /\ dpc' = "again"
    /\ UNCHANGED <<base, rvars, cvars, mvars, evars, qvars, kvars, svars, nvars, pvars, tvars, gvars, regionKey, volumeName, volumeOCID2>>

DeriveAgain ==
    /\ dpc = "again"
    /\ volumeOCID2' = deriveVolumeOCID(regionKey, volumeOCID)
    /\ dpc' = "done"
    /\ UNCHANGED <<base, rvars, cvars, mvars, evars, qvars, kvars, svars, nvars, pvars, tvars, gvars, regionKey, volumeName, volumeOCID>>

InitDerive ==
    /\ DriverOff
    /\ WaitOff
    /\ FindOff
    /\ OthersOff({"derive"})
    /\ regionKey \in RegionKeys
    /\ volumeName \in VolumeNames
    /\ dpc = "call"
    /\ volumeOCID = <<>>
    /\ volumeOCID2 = <<>>

NextDerive == DeriveCall \/ DeriveAgain

SpecDerive == InitDerive /\ [][NextDerive]_vars

----------------------------------------------------------------------------
(* SpecResolve: one invocation of GetInstanceByNodeName.  The remote       *)
(* service answers each call with any page, vnic or instance, or with an   *)
(* error; the cache file starts empty, damaged, or holding any map.        *)

InstanceItems == [id : Instances, state : InstanceStates]

VnicItems == [vnic : VnicIds, instance : Instances, subnet : SubnetIds,
              state : VnicAttachmentStates]

InstancePages == UNION {[1..n -> InstanceItems] : n \in 0..MaxPageLen}

\* return from GetInstanceByNodeName: the deferred ociCache.Close() runs.
\* Close seeks to the start, writes the map and unlocks; when the seek
\* fails nothing is written and closing the file drops the lock.
ResolveReturn(result) ==
    /\ rres' = result
    /\ rpc' = "done"
    /\ \/ /\ rfile' = WriteAt0(rfile, Encode(rcache.vnics))
          /\ rcache' = [rcache EXCEPT !.file = "nil", !.held = FALSE, !.writes = @ + 1]
       \/ /\ rfile' = rfile
          /\ rcache' = [rcache EXCEPT !.file = "nil", !.held = FALSE]

\* cache.Open: open (and create) the file, take the exclusive lock, decode
ResolveOpen ==
    /\ rpc = "open"
    /\ \/ /\ rres' = PhaseError("open", 0)
          /\ rpc' = "done"
          /\ UNCHANGED rcache
       \/ /\ rcache' = [rcache EXCEPT !.vnics = Decode(rfile), !.file = "open",
                                       !.locks = @ + 1, !.held = TRUE]
          /\ rpc' = "list1"
          /\ UNCHANGED rres
    /\ UNCHANGED <<base, dvars, cvars, mvars, evars, qvars, kvars, svars, nvars, pvars, tvars, gvars, rfile, running, rsubnets, rpage, rleft, rmore, ritem, rhist>>

\* GetInstanceByNodeName after phase 1 returned: the instance, or phase 2
AfterPhase1(result) ==
    IF Phase1Falls(result.err)
    THEN /\ rpc' = "subnets"
         /\ running' = <<>>
         /\ rpage' = 0
         /\ UNCHANGED <<rres, rcache, rfile>>
    ELSE /\ ResolveReturn(result)
         /\ UNCHANGED <<running, rpage>>

\* phase 1: one ListInstances call (filtered by display name) and the loop
\* over its items; after the last page the count check
ResolveList1 ==
    /\ rpc = "list1"
    /\ \/ /\ rhist' = [rhist EXCEPT !.p1 = "api"]
          /\ AfterPhase1(PhaseError("api", 1))
       \/ \E items \in InstancePages, more \in BOOLEAN :
             /\ more => rpage + 1 < MaxPages
             /\ LET served == Min(2, rhist.served1 +
                              Cardinality({k \in 1..Len(items) : items[k].state = "RUNNING"}))
                    list == running \o RunningOf(items)
                IN  IF more
                    THEN /\ running' = list
                         /\ rpage' = rpage + 1
                         /\ rhist' = [rhist EXCEPT !.served1 = served]
                         /\ UNCHANGED <<rpc, rres, rcache, rfile>>
                    ELSE /\ rhist' = [rhist EXCEPT !.served1 = served,
                                          !.p1 = "listed"]
                         /\ AfterPhase1(PhaseResult(list, 1))
    /\ UNCHANGED <<base, dvars, cvars, mvars, evars, qvars, kvars, svars, nvars, pvars, tvars, gvars, rsubnets, rleft, rmore, ritem>>

\* phase 2: getAllSubnetsForVNC
ResolveSubnets ==
    /\ rpc = "subnets"
    /\ \/ /\ ResolveReturn(PhaseError("api", 2))
          /\ UNCHANGED rsubnets
       \/ /\ ResolveReturn(PhaseError("nosubnets", 2))
          /\ UNCHANGED rsubnets
       \/ /\ rsubnets' = <<"s1">>
          /\ rpc' = "list2"
          /\ UNCHANGED <<rres, rcache, rfile>>
    /\ UNCHANGED <<base, dvars, cvars, mvars, evars, qvars, kvars, svars, nvars, pvars, tvars, gvars, running, rpage, rleft, rmore, ritem, rhist>>

\* phase 2: one ListVnicAttachments call
ResolveList2 ==
    /\ rpc = "list2"
    /\ \/ /\ ResolveReturn(PhaseError("api", 2))
          /\ UNCHANGED <<rpage, rleft, rmore>>
       \/ \E len \in 0..MaxVnicPageLen, more \in BOOLEAN :
             /\ more => rpage + 1 < MaxPages
             /\ rleft' = len
             /\ rmore' = more
             /\ rpage' = rpage + 1
             /\ rpc' = "items"
             /\ UNCHANGED <<rres, rcache, rfile>>
    /\ UNCHANGED <<base, dvars, cvars, mvars, evars, qvars, kvars, svars, nvars, pvars, tvars, gvars, running, rsubnets, ritem, rhist>>

\* the loop body once the vnic of the attachment is in hand
AfterVnic(item, vnic) ==
    IF VnicMatches(vnic, NodeName)
    THEN rpc' = "getinstance" /\ ritem' = item
    ELSE rpc' = "items" /\ ritem' = NoItem

\* phase 2: the loop body on the next vnic attachment of the page, up to
\* its first remote call
ResolveItem(item) ==
    /\ rpc = "items"
    /\ rleft > 0
    /\ rleft' = rleft - 1
    /\ IF ~isVnicAttachmentInSubnets(item, rsubnets) \/ item.state # "ATTACHED"
       THEN UNCHANGED <<rpc, ritem>>
       ELSE IF GetVnic(rcache.vnics, item.vnic).ok
       THEN AfterVnic(item, GetVnic(rcache.vnics, item.vnic).value)
       ELSE rpc' = "getvnic" /\ ritem' = item
    /\ UNCHANGED <<base, dvars, cvars, mvars, evars, qvars, kvars, svars, nvars, pvars, tvars, gvars, rcache, rfile, running, rsubnets, rpage, rmore, rres, rhist>>

\* phase 2: the end of a page: the next page, or the count check
ResolvePageEnd ==
    /\ rpc = "items"
    /\ rleft = 0
    /\ IF rmore
       THEN rpc' = "list2" /\ UNCHANGED <<rres, rcache, rfile>>
       ELSE ResolveReturn(PhaseResult(running, 2))
    /\ UNCHANGED <<base, dvars, cvars, mvars, evars, qvars, kvars, svars, nvars, pvars, tvars, gvars, running, rsubnets, rpage, rleft, rmore, ritem, rhist>>

\* phase 2: GetVnic after a cache miss; an error is logged and the loop
\* continues with the next attachment
ResolveGetVnic ==
    /\ rpc = "getvnic"
    /\ \/ /\ rpc' = "items"
          /\ ritem' = NoItem
          /\ UNCHANGED rcache
       \/ \E vnic \in VnicValues :
             /\ rcache' = [rcache EXCEPT !.vnics = SetVnic(@, ritem.vnic, vnic)]
             /\ AfterVnic(ritem, vnic)
    /\ UNCHANGED <<base, dvars, cvars, mvars, evars, qvars, kvars, svars, nvars, pvars, tvars, gvars, rfile, running, rsubnets, rpage, rleft, rmore, rres, rhist>>

\* phase 2: GetInstance for a matching vnic
ResolveGetInstance ==
    /\ rpc = "getinstance"
    /\ \/ /\ ResolveReturn(PhaseError("api", 2))
          /\ UNCHANGED <<running, ritem, rhist>>
       \/ \E state \in InstanceStates :
             /\ running' = IF IsRunning(state)
                            THEN Append(running, [id |-> ritem.instance, state |-> state])
                            ELSE running
             /\ rhist' = [rhist EXCEPT !.served2 = IF state = "RUNNING" THEN @ + 1 ELSE @]
             /\ rpc' = "items"
             /\ ritem' = NoItem
             /\ UNCHANGED <<rres, rcache, rfile>>
    /\ UNCHANGED <<base, dvars, cvars, mvars, evars, qvars, kvars, svars, nvars, pvars, tvars, gvars, rsubnets, rpage, rleft, rmore>>

\* files that do not start with a complete JSON value: a cut-off one, and a
\* long one that starts in the middle of a line
DamagedFiles ==
    { <<Punct("{")>>,
      <<Punct("nl")>> \o Encode([id \in VnicIds |-> [publicIp |-> << <<"9">> >>,
                                                    hostnameLabel |-> << <<"n">> >>]]) }

CacheFiles == {<<>>} \cup DamagedFiles \cup {Encode(m) : m \in VnicMaps}

InitResolve ==
    /\ DriverOff
    /\ WaitOff
    /\ FindOff
    /\ OthersOff({"resolve"})
    /\ rpc = "open"
    /\ rcache = NoCache
    /\ rfile \in CacheFiles
    /\ running = <<>>
    /\ rsubnets = <<>>
    /\ rpage = 0
    /\ rleft = 0
    /\ rmore = FALSE
    /\ ritem = NoItem
    /\ rres = NoResolve
    /\ rhist = NoHist

NextResolve ==
    \/ ResolveOpen
    \/ ResolveList1
    \/ ResolveSubnets
    \/ ResolveList2
    \/ \E item \in VnicItems : ResolveItem(item)
    \/ ResolvePageEnd
    \/ ResolveGetVnic
    \/ ResolveGetInstance

SpecResolve == InitResolve /\ [][NextResolve]_vars

----------------------------------------------------------------------------
(* SpecCache: concurrent invocations on one host, each opening the cache    *)
(* file, using the handle and closing it, possibly twice.                   *)

\* the values SetVnic is called with: one with nil fields, one with strings
CacheValues ==
    { [publicIp |-> <<>>, hostnameLabel |-> <<>>],
      [publicIp |-> << <<"9">> >>, hostnameLabel |-> << <<"n">> >>] }

\* a file left by an earlier invocation: every vnic with both fields
FilledFile == Encode([id \in VnicIds |-> [publicIp |-> << <<"9">> >>,
                                          hostnameLabel |-> << <<"n">> >>]])

\* the locks held on the file by the invocations other than p
OtherLocks(p) == {clock[q] : q \in Procs \ {p}}

\* the Open calls made so far by the invocations 1..n
RECURSIVE Opens(_)
Opens(n) == IF n = 0 THEN 0 ELSE cproc[n].opens + Opens(n - 1)

\* Open, first part: os.OpenFile(filename, O_RDWR|O_CREATE)
CacheOpenFile(p) ==
    /\ cproc[p].pc \in {"idle", "closed"}
    /\ Opens(MaxProcs) < MaxOpens
    /\ cproc' = [cproc EXCEPT ![p] = [NoProc EXCEPT !.pc = "flock", !.opens = cproc[p].opens + 1]]
    /\ UNCHANGED <<base, dvars, rvars, mvars, evars, qvars, kvars, svars, nvars, pvars, tvars, gvars, cfile, clock, clast, cpend, cexpect>>

\* Open, second part: syscall.Flock blocks until the lock is granted, then
\* the file is decoded and the handle returned; or Flock fails and Open
\* returns the error
CacheFlock(p) ==
    /\ cproc[p].pc = "flock"
    /\ \/ /\ FlockGranted(OpenLockMode, OtherLocks(p))
          /\ clock' = [clock EXCEPT ![p] = OpenLockMode]
          /\ cproc' = [cproc EXCEPT ![p].pc = "open", ![p].file = "open",
                                     ![p].vnics = Decode(cfile)]
          /\ clast' = NoGet
          /\ cpend' = EmptyMap
       \/ /\ cproc' = [cproc EXCEPT ![p].pc = "idle", ![p].err = "flock"]
          /\ UNCHANGED <<clock, clast, cpend>>
    /\ UNCHANGED <<base, dvars, rvars, mvars, evars, qvars, kvars, svars, nvars, pvars, tvars, gvars, cfile, cexpect>>

CacheSetVnic(p, id, value) ==
    /\ cproc[p].pc = "open"
    /\ cproc' = [cproc EXCEPT ![p].vnics = SetVnic(@, id, value)]
    /\ cpend' = [k \in DOMAIN cpend \cup {id} |-> IF k = id THEN value ELSE cpend[k]]
    /\ UNCHANGED <<base, dvars, rvars, mvars, evars, qvars, kvars, svars, nvars, pvars, tvars, gvars, cfile, clock, clast, cexpect>>

CacheGetVnic(p, id) ==
    /\ cproc[p].pc = "open"
    /\ clast' = [proc |-> p, id |-> id, value |-> GetVnic(cproc[p].vnics, id).value,
                              ok |-> GetVnic(cproc[p].vnics, id).ok]
    /\ UNCHANGED <<base, dvars, rvars, mvars, evars, qvars, kvars, svars, nvars, pvars, tvars, gvars, cfile, clock, cproc, cpend, cexpect>>

\* what was set under the handle has reached the file
Flushed == [k \in DOMAIN cexpect \cup DOMAIN cpend |->
               IF k \in DOMAIN cpend THEN cpend[k] ELSE cexpect[k]]

\* Close.  With a file in the handle: seek to the start, encode the map,
\* unlock; the deferred function closes the file, which drops the lock in
\* any case.  A seek that fails (as on a file closed before) returns the
\* error before anything is written.  Without a file: nothing.
CacheClose(p) ==
    /\ cproc[p].pc \in {"open", "closed"}
    /\ cproc[p].closes < 2
    /\ IF cproc[p].file = "nil"
       THEN /\ cproc' = [cproc EXCEPT ![p].closes = @ + 1, ![p].err = ""]
            /\ UNCHANGED <<cfile, clock, clast, cpend, cexpect>>
       ELSE /\ \/ /\ cproc[p].file = "open"
                  /\ cfile' = WriteAt0(cfile, Encode(cproc[p].vnics))
                  /\ cexpect' = Flushed
                  /\ cproc' = [cproc EXCEPT ![p].pc = "closed", ![p].closes = @ + 1,
                                             ![p].err = "", ![p].vnics = EmptyMap,
                                             ![p].file = FileAfterClose]
               \/ /\ UNCHANGED <<cfile, cexpect>>
                  /\ cproc' = [cproc EXCEPT ![p].pc = "closed", ![p].closes = @ + 1,
                                             ![p].err = "seek", ![p].vnics = EmptyMap,
                                             ![p].file = FileAfterClose]
            /\ clock' = [clock EXCEPT ![p] = ""]
            /\ clast' = IF cproc[p].file = "open" THEN NoGet ELSE clast
            /\ cpend' = IF cproc[p].file = "open" THEN EmptyMap ELSE cpend
    /\ UNCHANGED <<base, dvars, rvars, mvars, evars, qvars, kvars, svars, nvars, pvars, tvars, gvars>>

InitCache ==
    /\ DriverOff
    /\ WaitOff
    /\ FindOff
    /\ OthersOff({"cache"})
    /\ cfile \in {<<>>, FilledFile} \cup DamagedFiles
    /\ clock = [p \in Procs |-> ""]
    /\ cproc = [p \in Procs |-> NoProc]
    /\ clast = NoGet
    /\ cpend = EmptyMap
    /\ cexpect = EmptyMap

NextCache ==
    \E p \in Procs :
        \/ CacheOpenFile(p)
        \/ CacheFlock(p)
        \/ \E id \in VnicIds, value \in CacheValues : CacheSetVnic(p, id, value)
        \/ \E id \in VnicIds : CacheGetVnic(p, id)
        \/ CacheClose(p)

SpecCache == InitCache /\ [][NextCache]_vars

----------------------------------------------------------------------------
(* SpecExport: AttachFileSystemToMountTarget of the file-storage client for *)
(* one file system and one mount target, one invocation at a time, against  *)
(* the remote service, on which exports are created, become ACTIVE and are  *)
(* deleted by any client.                                                   *)

Paths == {"/a", "/b"}

ExportStates == {"CREATING", "ACTIVE", "DELETING", "DELETED"}

\* listExports: the exports of the file system in the export set of the
\* mount target, as paths; a deleted export is gone from the listing
ListExports == {path \in Paths : exports[path] \notin {"NONE", "DELETED"}}

\* findExport: the export at the path, "nil" for none
findExport(path) == IF path \in ListExports THEN exports[path] ELSE "nil"

\* the loop test export.LifecycleState == ExportLifecycleStateActive
IsActive(state) == state = "ACTIVE"

ExportReturn(result) ==
    /\ xpc' = "idle"
    /\ xres' = result

ExportBegin(path) ==
    /\ xpc = "idle"
    /\ xpc' = "find"
    /\ xpath' = path
    /\ export' = ""
    /\ xfound' = FALSE
    /\ xpolls' = 0
    /\ xres' = ""
    /\ UNCHANGED <<base, dvars, rvars, cvars, mvars, evars, kvars, qvars, nvars, pvars, tvars, gvars, exports>>

\* findExport and the return for an export that exists
ExportFind ==
    /\ xpc = "find"
    /\ \/ /\ ExportReturn("error")
          /\ UNCHANGED <<export, xfound>>
       \/ IF findExport(xpath) # "nil"
          THEN /\ export' = findExport(xpath)
               /\ xfound' = TRUE
               /\ ExportReturn("ok")
          ELSE /\ xpc' = "create"
               /\ UNCHANGED <<export, xfound, xres>>
    /\ UNCHANGED <<base, dvars, rvars, cvars, mvars, evars, kvars, qvars, nvars, pvars, tvars, gvars, exports, xpath, xpolls>>

\* CreateExport: the service creates the export unless the path is taken
ExportCreate ==
    /\ xpc = "create"
    /\ \/ /\ ExportReturn("error")
          /\ UNCHANGED <<exports, export>>
       \/ /\ xpath \notin ListExports
          /\ exports' = [exports EXCEPT ![xpath] = "CREATING"]
          /\ export' = "CREATING"
          /\ xpc' = "poll"
          /\ UNCHANGED xres
    /\ UNCHANGED <<base, dvars, rvars, cvars, mvars, evars, kvars, qvars, nvars, pvars, tvars, gvars, xpath, xfound, xpolls>>

\* one iteration of the loop: the test, then GetExport and the sleep
ExportPoll ==
    /\ xpc = "poll"
    /\ IF IsActive(export)
       THEN /\ ExportReturn("ok")
            /\ UNCHANGED <<export, xpolls>>
       ELSE /\ xpolls' = Min(xpolls + 1, MaxPolls)
            /\ \/ /\ ExportReturn("error")
                  /\ UNCHANGED export
               \/ /\ export' = exports[xpath]
                  /\ UNCHANGED <<xpc, xres>>
    /\ UNCHANGED <<base, dvars, rvars, cvars, mvars, evars, kvars, qvars, nvars, pvars, tvars, gvars, exports, xpath, xfound>>

\* the service moves an export on
ExportProgress(path) ==
    /\ exports[path] \in {"CREATING", "DELETING"}
    /\ exports' = [exports EXCEPT ![path] = IF @ = "CREATING" THEN "ACTIVE" ELSE "DELETED"]
    /\ UNCHANGED <<base, dvars, rvars, cvars, mvars, evars, kvars, qvars, nvars, pvars, tvars, gvars, xpc, xpath, export,
                   xfound, xpolls, xres>>

\* another client (or an earlier invocation that was killed) creates an export
OtherCreate(path) ==
    /\ path \notin ListExports
    /\ exports' = [exports EXCEPT ![path] = "CREATING"]
    /\ UNCHANGED <<base, dvars, rvars, cvars, mvars, evars, kvars, qvars, nvars, pvars, tvars, gvars, xpc, xpath, export,
                   xfound, xpolls, xres>>

\* another client deletes an export
OtherDelete(path) ==
    /\ exports[path] \in {"CREATING", "ACTIVE"}
    /\ exports' = [exports EXCEPT ![path] = "DELETING"]
    /\ UNCHANGED <<base, dvars, rvars, cvars, mvars, evars, kvars, qvars, nvars, pvars, tvars, gvars, xpc, xpath, export,
                   xfound, xpolls, xres>>

InitExport ==
    /\ DriverOff
    /\ WaitOff
    /\ FindOff
    /\ OthersOff({"export"})
    /\ exports = [path \in Paths |-> "NONE"]
    /\ xpc = "idle"
    /\ xpath = ""
    /\ export = ""
    /\ xfound = FALSE
    /\ xpolls = 0
    /\ xres = ""

ExportSteps == ExportFind \/ ExportCreate \/ ExportPoll

NextExport ==
    \/ \E path \in Paths : ExportBegin(path)
    \/ ExportFind
    \/ ExportCreate
    \/ ExportPoll
    \/ \E path \in Paths : ExportProgress(path)
    \/ \E path \in Paths : OtherCreate(path)
    \/ \E path \in Paths : OtherDelete(path)

SpecExport == InitExport /\ [][NextExport]_vars

\* the invocation is sequential code: whenever it can take a step it does
FairSpecExport == SpecExport /\ WF_vars(ExportSteps)

----------------------------------------------------------------------------
(* SpecNfs: MountDevice and UnmountDevice of the file-storage driver on one *)
(* node. A device is written as the sequence of the segments of its path:   *)
(* <<"mnt", ip, ocid>> is "/mnt/<ip>/<ocid>", the device Attach returns.     *)

NfsDevices == {<<"mnt", "10.0.0.2", "fs1">>, <<"mnt", "10.0.0.3", "fs2">>, <<"dev">>}

\* strings.Split(mountDevice, "/"): the path starts with "/", so the first
\* part is the empty string
Split(mountDevice) == <<"">> \o mountDevice

\* mounter.IsLikelyNotMountPoint(mountDir)
IsLikelyNotMountPoint(host, mountDir, statErr) ==
    IF mountDir \notin host.dirs THEN [notMnt |-> TRUE, err |-> "not exist"]
    ELSE IF statErr THEN [notMnt |-> TRUE, err |-> "stat"]
    ELSE [notMnt |-> host.mounts[mountDir] = NoSource, err |-> "nil"]

\* the return of MountDevice after a mount that succeeded
MountDeviceReturn == Fail("MountDevice", "MountDevice")

\* OCIFilestorageDriver.MountDevice: the node and the status afterwards, and
\* whether the mount was made; parts[2] of Go is parts[3] here
FilestorageMountDevice(host, mountDir, mountDevice, statErr, mountErr) ==
    LET parts == Split(mountDevice)
    IN  IF Len(parts) < 3
        THEN [host |-> host, status |-> Panic, did |-> FALSE]
        ELSE LET source == [ip |-> parts[3], device |-> mountDevice]
                 probe == IsLikelyNotMountPoint(host, mountDir, statErr)
                 made == [host EXCEPT !.dirs = @ \cup {mountDir}]
             IN  IF probe.err \notin {"nil", "not exist"}
                 THEN [host |-> host, status |-> Fail("MountDevice", probe.err), did |-> FALSE]
                 ELSE IF ~probe.notMnt
                 THEN [host |-> host, status |-> Fail("MountDevice", "Already mount point"),
                       did |-> FALSE]
                 ELSE IF mountErr
                 THEN [host |-> made, status |-> Fail("MountDevice", "mount"), did |-> FALSE]
                 ELSE [host |-> [made EXCEPT !.mounts[mountDir] = source],
                       status |-> MountDeviceReturn, did |-> TRUE]

\* OCIFilestorageDriver.UnmountDevice: umount fails where nothing is mounted
FilestorageUnmountDevice(host, mountPath, umountErr) ==
    IF umountErr \/ mountPath \notin host.dirs \/ host.mounts[mountPath] = NoSource
    THEN [host |-> host, status |-> Fail("UnmountDevice", "umount"), did |-> FALSE]
    ELSE [host |-> [host EXCEPT !.mounts[mountPath] = NoSource], status |-> Succeed(0),
          did |-> TRUE]

\* the kubelet creates the mount directory
NfsMakeDir(dir) ==
    /\ dir \notin nhost.dirs
    /\ nhost' = [nhost EXCEPT !.dirs = @ \cup {dir}]
    /\ UNCHANGED <<base, dvars, rvars, cvars, mvars, evars, kvars, qvars, svars, pvars, tvars, gvars, nlast>>

NfsMountDevice(mountDir, mountDevice, statErr, mountErr) ==
    LET run == FilestorageMountDevice(nhost, mountDir, mountDevice, statErr, mountErr)
    IN  /\ nhost' = run.host
        /\ nlast' = [op |-> "MountDevice", dir |-> mountDir, device |-> mountDevice,
                     status |-> run.status, did |-> run.did]
        /\ UNCHANGED <<base, dvars, rvars, cvars, mvars, evars, kvars, qvars, svars, pvars, tvars, gvars>>

NfsUnmountDevice(mountPath, umountErr) ==
    LET run == FilestorageUnmountDevice(nhost, mountPath, umountErr)
    IN  /\ nhost' = run.host
        /\ nlast' = [op |-> "UnmountDevice", dir |-> mountPath, device |-> <<>>,
                     status |-> run.status, did |-> run.did]
        /\ UNCHANGED <<base, dvars, rvars, cvars, mvars, evars, kvars, qvars, svars, pvars, tvars, gvars>>

InitNfs ==
    /\ DriverOff
    /\ WaitOff
    /\ FindOff
    /\ OthersOff({"nfs"})
    /\ nhost = NoNfsHost
    /\ nlast = NoNfs

NextNfs ==
    \/ \E dir \in NfsDirs : NfsMakeDir(dir)
    \/ \E dir \in NfsDirs, device \in NfsDevices, statErr \in BOOLEAN, mountErr \in BOOLEAN :
          NfsMountDevice(dir, device, statErr, mountErr)
    \/ \E dir \in NfsDirs, umountErr \in BOOLEAN : NfsUnmountDevice(dir, umountErr)

SpecNfs == InitNfs /\ [][NextNfs]_vars

----------------------------------------------------------------------------
(* SpecObserve: the IsAttached and WaitForAttach call-outs of the block     *)
(* driver against the remote service, on which other clients attach and     *)
(* detach.  Each call-out makes at most one remote call and is one step.    *)
(* qlast keeps, next to the status, the error of the lookup (err), the      *)
(* attachment the lookup returned (seen) and the ATTACHED attachments of    *)
(* the volume at that moment (live).                                        *)

Attached(volume) ==
    {Entry(id) : id \in {k \in Ids : /\ attachments[k].volume = volume
                                     /\ attachments[k].state = "ATTACHED"}}

Query(op, volume, node, result, err, seen) ==
    [op |-> op, volume |-> volume, node |-> node, result |-> result,
     err |-> err, seen |-> seen, live |-> Attached(volume)]

IsAttached(volume, node) ==
    /\ \/ qlast' = Query("IsAttached", volume, node, FailStatus("config"), "config", NotFound)
       \/ qlast' = Query("IsAttached", volume, node, IsAttachedStatus("api"), "api", NotFound)
       \/ LET a == FindVolumeAttachment(ListVolumeAttachments(volume))
              err == IF a = NotFound THEN "notfound" ELSE ""
          IN  qlast' = Query("IsAttached", volume, node, IsAttachedStatus(err), err, a)
    /\ UNCHANGED <<base, dvars, rvars, cvars, mvars, evars, kvars, svars, nvars, pvars, tvars, gvars>>

WaitForAttach(volume, mountDevice) ==
    /\ qlast' = Query("WaitForAttach", volume, "", WaitForAttachStatus(mountDevice), "", NotFound)
    /\ UNCHANGED <<base, dvars, rvars, cvars, mvars, evars, kvars, svars, nvars, pvars, tvars, gvars>>

InitObserve ==
    /\ DriverOff
    /\ WaitOff
    /\ FindOff
    /\ OthersOff({"observe"})
    /\ qlast = NoQuery

NextObserve ==
    \/ \E volume \in Volumes, node \in Nodes : IsAttached(volume, node)
    \/ \E volume \in Volumes, mountDevice \in 0..MaxAttachments :
          WaitForAttach(volume, mountDevice)
    \/ \E id \in Ids : Progress(id)
    \/ \E volume \in Volumes, instance \in Instances, iscsi \in BOOLEAN :
          OtherAttach(volume, instance, iscsi)
    \/ \E id \in Ids : OtherDetach(id)

SpecObserve == InitObserve /\ [][NextObserve]_vars

----------------------------------------------------------------------------
(* SpecExec: call-outs through ExecDriver, one after the other, for every   *)
(* order of the block and the file-storage driver.                          *)

DriverLists ==
    {<<>>, <<"block">>, <<"filestorage">>, <<"block", "filestorage">>,
     <<"filestorage", "block">>}

Commands == DOMAIN Expected \cup {"init", "getvolumename", "bogus"}

\* a block volume OCID, a file system OCID, a volume name that is no OCID,
\* and the OCID of something else
ExecVolumeIds ==
    {ocidVolPrefix \o <<"x">>, ocidFilestroagePrefix \o <<"x">>, <<"x">>,
     ocidPrefix \o <<"i", ".", "x">>}

ExecCalls ==
    [cmd : Commands, n : 2..5, opts : {"bad", "nokey", "ok"}, volume : ExecVolumeIds]

ExecCallOut(call) ==
    /\ ecall' = call
    /\ eres' = ExecDriver(edrivers, call)
    /\ UNCHANGED <<base, dvars, rvars, cvars, mvars, qvars, kvars, svars, nvars, pvars, tvars, gvars, edrivers>>

InitExec ==
    /\ DriverOff
    /\ WaitOff
    /\ FindOff
    /\ OthersOff({"exec"})
    /\ edrivers \in DriverLists
    /\ ecall = NoExec
    /\ eres = NoResult

NextExec == \E call \in ExecCalls : ExecCallOut(call)

SpecExec == InitExec /\ [][NextExec]_vars

----------------------------------------------------------------------------
(* SpecMount: MountDevice and UnmountDevice call-outs on one node, one at a *)
(* time, for one volume and one mount directory.                            *)

FsTypes == {"ext4", "xfs"}

\* the orchestrator (or the test) creates the mount directory
MakeDir ==
    /\ ~mhost.dir
    /\ mhost' = [mhost EXCEPT !.dir = TRUE]
    /\ UNCHANGED <<base, dvars, rvars, cvars, evars, qvars, kvars, svars, nvars, pvars, tvars, gvars, mlast, mprev>>

MountDevice(valid, fstype, fault) ==
    /\ \E run \in MountRuns(mhost, valid, fstype, fault) :
          /\ mhost' = run.host
          /\ mlast' = [op |-> "MountDevice", result |-> run.result, did |-> run.did,
                       was |-> valid /\ mhost.mounted, errs |-> run.errs,
                       fstype |-> fstype]
    /\ mprev' = mlast
    /\ UNCHANGED <<base, dvars, rvars, cvars, evars, qvars, kvars, svars, nvars, pvars, tvars, gvars>>

UnmountDevice ==
    /\ \E lookup \in NewFromMountPointPath(mhost) :
          \E run \in UnmountRuns(mhost, lookup) :
             /\ mhost' = run.host
             /\ mlast' = [op |-> "UnmountDevice", result |-> run.result, did |-> run.did,
                          was |-> mhost.mounted, errs |-> run.errs, fstype |-> ""]
    /\ mprev' = mlast
    /\ UNCHANGED <<base, dvars, rvars, cvars, evars, qvars, kvars, svars, nvars, pvars, tvars, gvars>>

InitMount ==
    /\ DriverOff
    /\ WaitOff
    /\ FindOff
    /\ OthersOff({"mount"})
    /\ mhost \in {[NoHost EXCEPT !.fs = fs] : fs \in FsTypes \cup {""}}
    /\ mlast = NoMount
    /\ mprev = NoMount

NextMount ==
    \/ MakeDir
    \/ \E valid \in BOOLEAN, fstype \in FsTypes, fault \in MountFaults \cup {"none"} :
          MountDevice(valid, fstype, fault)
    \/ UnmountDevice

SpecMount == InitMount /\ [][NextMount]_vars

----------------------------------------------------------------------------
(* Properties of the call-outs (Spec) *)

\* the returned call-out failed on its environment: the configuration, the
\* node lookup, or a remote call that did not answer (AttachVolume answering
\* with a status other than 409 included)
EnvFailed ==
    \/ last.why \in {"config", "resolve"}
    \/ statusCode \in ErrorStatusCodes
    \/ last.why = "api" /\ last.from # "AttachVolume"

\* the returned call-out is an Attach repeated for the volume and node of an
\* earlier successful Attach, with no detach request for the volume in between
AttachRepeated ==
    /\ pc = "idle"
    /\ cur.op = "Attach"
    /\ okAttach.count = 2
    /\ okAttach.volume = cur.volume
    /\ okAttach.node = cur.node

\* C1: Attach is idempotent under retry.  An Attach repeated for the same
\* volume and node after a successful Attach, with no detach in between and
\* with its remote calls answered, returns Success with the same device: it
\* got the 409 and reused the attachment of the first call.
AttachIdempotent ==
    (AttachRepeated /\ ~EnvFailed) =>
        /\ last.status = "Success"
        /\ last.device = okAttach.device
        /\ statusCode = StatusConflict
        /\ found = okAttach.device

AttachIdempotentWitness ==
    /\ AttachRepeated
    /\ last.status = "Success"
    /\ statusCode = StatusConflict
    /\ last.device = okAttach.device

\* the returned call-out is a Detach of a volume after a Detach that
\* succeeded, with no attach request for the volume since the detach request
\* of that earlier Detach
DetachRepeated ==
    /\ pc = "idle"
    /\ cur.op = "Detach"
    /\ detachRun.count = 2
    /\ detachRun.volume = cur.volume

\* C2: Detach is not idempotent.  A Detach repeated after a successful Detach
\* of the volume, with no attach in between, returns Failure: the lookup finds
\* no ATTACHING or ATTACHED attachment, so no detach request and no poll is made.
DetachNotIdempotent ==
    DetachRepeated =>
        /\ last.status = "Failure"
        /\ calls.detach = 0
        /\ ~calls.polled
        /\ (calls.list = 1 /\ last.why # "api") => last.why = "notfound"

DetachNotIdempotentWitness ==
    /\ DetachRepeated
    /\ last.status = "Failure"
    /\ last.from = "FindVolumeAttachment"
    /\ last.why = "notfound"

\* C3: on the 409 path, once the lookup found an attachment, Attach fails with
\* the ownership error exactly when that attachment belongs to another
\* instance than the requested one, without polling; otherwise it goes on to
\* WaitForVolumeAttached with the found attachment, and a Success carries the
\* found attachment's device.
ConflictOwnership ==
    (statusCode = StatusConflict /\ found # 0) =>
        IF attachments[found].instance # InstanceOf(cur.node)
        THEN /\ pc = "idle"
             /\ last.status = "Failure"
             /\ last.why = "owner"
             /\ ~calls.polled
        ELSE /\ last.why # "owner"
             /\ pc \in {"wait", "idle"}
             /\ pc = "wait" => att = found
             /\ pc = "idle" => calls.polled
             /\ last.status = "Success" => last.device = found

ConflictOwnershipWitness ==
    /\ statusCode = StatusConflict
    /\ found # 0
    /\ attachments[found].instance # InstanceOf(cur.node)
    /\ last.status = "Failure"
    /\ last.why = "owner"

\* the other case of C3: found on the requested instance and reused
ConflictReuseReached ==
    /\ statusCode = StatusConflict
    /\ found # 0
    /\ attachments[found].instance = InstanceOf(cur.node)
    /\ last.status = "Success"

\* Attach got the 409 and its lookup, which answered, found no attachment
ConflictNotFound ==
    /\ pc = "idle"
    /\ cur.op = "Attach"
    /\ statusCode = StatusConflict
    /\ calls.list = 1
    /\ found = 0
    /\ last.why # "api"

\* C4 as claimed: after a 409 and a lookup that finds no ATTACHING or ATTACHED
\* attachment, Attach returns Failure reporting the error of the attach call.
ConflictNotFoundReportsAttachError ==
    ConflictNotFound =>
        /\ last.status = "Failure"
        /\ last.from = "AttachVolume"

\* C4 as amended: after a 409 and a lookup that finds no ATTACHING or ATTACHED
\* attachment, Attach returns Failure reporting the not-found error of
\* FindVolumeAttachment (the error of the attach call is dropped), and polls nothing.
ConflictNotFoundReportsFindError ==
    ConflictNotFound =>
        /\ last.status = "Failure"
        /\ last.from = "FindVolumeAttachment"
        /\ last.why = "notfound"
        /\ calls.attach = 1
        /\ ~calls.polled

ConflictNotFoundWitness ==
    /\ ConflictNotFound
    /\ last.status = "Failure"
    /\ last.why = "notfound"

\* C5: when AttachVolume fails with a status other than 409, Attach has
\* returned Failure in that same step: one attach request, no
\* FindVolumeAttachment lookup, no poll.
NonConflictFailsImmediately ==
    (cur.op = "Attach" /\ statusCode \notin {0, 200, StatusConflict}) =>
        /\ pc = "idle"
        /\ last.status = "Failure"
        /\ calls.attach = 1
        /\ calls.list = 0
        /\ ~calls.polled
        /\ found = 0

NonConflictFailsImmediatelyWitness ==
    /\ cur.op = "Attach"
    /\ statusCode = 500
    /\ pc = "idle"
    /\ last.status = "Failure"
    /\ last.from = "AttachVolume"

----------------------------------------------------------------------------
(* Properties of the polling loops (SpecWait) *)

\* every poll before the last one observed this state
EarlierAll(state) == \A j \in 1..(Len(wobs) - 1) : wobs[j] = state

LastObserved == wobs[Len(wobs)]

\* C6: WaitForVolumeAttached observing k times ATTACHING and then ATTACHED
\* (0 <= k < 120) has returned the attachment on that poll, after exactly k
\* sleeps and k + 1 polls.
AttachedAfterKSleeps ==
    ( /\ wkind = "attach"
      /\ Len(wobs) >= 1
      /\ LastObserved = "ATTACHED"
      /\ EarlierAll("ATTACHING")
      /\ Len(wobs) - 1 < 120 ) =>
        /\ wpc = "done"
        /\ wres = "ok"
        /\ wsleeps = Len(wobs) - 1
        /\ wi = Len(wobs) - 1

\* the sequence [ATTACHING, ATTACHING, ATTACHED] succeeded after 2 sleeps
AttachedAfterTwoSleeps ==
    /\ wkind = "attach"
    /\ wobs = <<"ATTACHING", "ATTACHING", "ATTACHED">>
    /\ wres = "ok"
    /\ wsleeps = 2

\* C7: WaitForVolumeAttached terminates, after at most 120 polls: there is
\* never a 121st poll, and it has returned the retry-budget error exactly when
\* it is done after 120 polls that all observed ATTACHING.
AttachedPollsBounded ==
    /\ [](wkind = "attach" =>
            /\ Len(wobs) <= 120
            /\ wres = "retries" <=>
                  /\ wpc = "done"
                  /\ Len(wobs) = 120
                  /\ \A j \in 1..Len(wobs) : wobs[j] = "ATTACHING")
    /\ <>(wkind = "attach" => wpc = "done")

AttachedBudgetExhausted ==
    /\ wkind = "attach"
    /\ wres = "retries"
    /\ Len(wobs) = 120
    /\ wsleeps = 120

\* C8: WaitForVolumeAttached observing a state other than ATTACHING and
\* ATTACHED has returned the unexpected-state error on that poll: no sleep
\* after it (the sleeps are those of the earlier polls) and no further poll.
AttachedUnexpectedIsFatal ==
    ( /\ wkind = "attach"
      /\ Len(wobs) >= 1
      /\ LastObserved \notin {"ATTACHING", "ATTACHED", "ERR"} ) =>
        /\ wpc = "done"
        /\ wres = "unexpected"
        /\ wsleeps = Len(wobs) - 1
        /\ EarlierAll("ATTACHING")

\* DETACHED on the first poll: failure with zero sleeps
AttachedFailsOnFirstPoll ==
    /\ wkind = "attach"
    /\ wobs = <<"DETACHED">>
    /\ wres = "unexpected"
    /\ wsleeps = 0

\* C9: WaitForVolumeDetached mirrors WaitForVolumeAttached.  After a poll
\* that observed DETACHING it sleeps and polls again, up to 120 polls, and
\* after 120 such polls it returns the retry-budget error; on DETACHED it has
\* returned success; on any other state it has returned an error on that
\* poll without sleeping.
DetachedMirrorsAttached ==
    (wkind = "detach" /\ Len(wobs) >= 1) =>
        /\ Len(wobs) <= 120
        /\ LastObserved = "DETACHING" =>
              /\ wres \in {"", "retries"}
              /\ wpc = "sleep" => wsleeps = Len(wobs) - 1
              /\ wpc = "poll" => wsleeps = Len(wobs)
              /\ wpc = "done" => (wres = "retries" /\ Len(wobs) = 120 /\ wsleeps = 120)
              /\ (wpc = "poll" /\ Len(wobs) < 120) => ENABLED WaitPoll("DETACHING")
        /\ LastObserved = "DETACHED" =>
              /\ wpc = "done"
              /\ wres = "ok"
              /\ wsleeps = Len(wobs) - 1
        /\ LastObserved \notin {"DETACHING", "DETACHED", "ERR"} =>
              /\ wpc = "done"
              /\ wres = "unexpected"
              /\ wsleeps = Len(wobs) - 1
        /\ LastObserved # "ERR" => EarlierAll("DETACHING")

DetachedAfterOneSleep ==
    /\ wkind = "detach"
    /\ wobs = <<"DETACHING", "DETACHED">>
    /\ wres = "ok"
    /\ wsleeps = 1

----------------------------------------------------------------------------
(* Properties of FindVolumeAttachment (SpecFind) *)

\* positions of the whole listing, in list order, that are ATTACHING or ATTACHED
Matches ==
    {k \in 1..Len(Flatten(fpages)) : Flatten(fpages)[k] \in {"ATTACHING", "ATTACHED"}}

\* C10: FindVolumeAttachment returns the first entry of the listing, in list
\* order across the pages, whose state is ATTACHING or ATTACHED, skipping the
\* DETACHING and DETACHED entries before it; without such an entry on any
\* page it fails with the not-found error.
FindReturnsFirstMatch ==
    fpc = "done" =>
        IF Matches = {}
        THEN fres = NotFound
        ELSE /\ fres.id \in Matches
             /\ \A k \in Matches : fres.id <= k
             /\ fres.state = Flatten(fpages)[fres.id]
             /\ fres.state \in {"ATTACHING", "ATTACHED"}

\* a match on a later page, after a first page of detached entries only
FindMatchOnLaterPage ==
    /\ fpc = "done"
    /\ Len(fpages) >= 2
    /\ Len(fpages[1]) >= 1
    /\ fres # NotFound
    /\ fres.id > Len(fpages[1])
    /\ fres.state = "ATTACHING"

----------------------------------------------------------------------------
(* Properties of deriveVolumeOCID (SpecDerive) *)

\* C11: deriveVolumeOCID is idempotent: applied to its own result, under the
\* same region key, it returns that result unchanged.
DeriveIdempotent ==
    dpc = "done" => volumeOCID2 = volumeOCID

\* a name without the prefix was expanded, and the expansion derived again
DeriveIdempotentWitness ==
    /\ dpc = "done"
    /\ volumeName = <<"a", "a", "a", "a", "a", "a">>
    /\ volumeOCID # volumeName
    /\ volumeOCID2 = volumeOCID

\* the first six characters of the name are o c i d 1 .
StartsWithOcid1 ==
    /\ Len(volumeName) >= 6
    /\ \A k \in 1..6 : volumeName[k] = <<"o", "c", "i", "d", "1", ".">>[k]

\* the region segment of the identifier
Segment ==
    IF regionKey = <<"f", "r", "a">>
    THEN <<"e", "u", "-", "f", "r", "a", "n", "k", "f", "u", "r", "t", "-", "1">>
    ELSE regionKey

\* C12: deriveVolumeOCID returns the name itself when it starts with
\* "ocid1.", and otherwise "ocid1.volume.oc1.<seg>.<name>" where seg is
\* "eu-frankfurt-1" for the region key "fra" and the region key itself for
\* every other; the three cases of the unit test give the documented results.
DeriveByCase ==
    dpc # "call" =>
        /\ volumeOCID =
              IF StartsWithOcid1 THEN volumeName
              ELSE <<"o", "c", "i", "d", "1", ".">> \o <<"v", "o", "l", "u", "m", "e", ".">>
                       \o <<"o", "c", "1", ".">> \o Segment \o <<".">> \o volumeName
        /\ volumeName = <<"a", "a", "a", "a", "a", "a">> =>
              /\ regionKey = <<"p", "h", "x">> =>
                    volumeOCID = <<"o", "c", "i", "d", "1", ".", "v", "o", "l", "u", "m", "e", ".",
                                   "o", "c", "1", ".", "p", "h", "x", ".",
                                   "a", "a", "a", "a", "a", "a">>
              /\ regionKey = <<"i", "a", "d">> =>
                    volumeOCID = <<"o", "c", "i", "d", "1", ".", "v", "o", "l", "u", "m", "e", ".",
                                   "o", "c", "1", ".", "i", "a", "d", ".",
                                   "a", "a", "a", "a", "a", "a">>
              /\ regionKey = <<"f", "r", "a">> =>
                    volumeOCID = <<"o", "c", "i", "d", "1", ".", "v", "o", "l", "u", "m", "e", ".",
                                   "o", "c", "1", ".",
                                   "e", "u", "-", "f", "r", "a", "n", "k", "f", "u", "r", "t", "-", "1",
                                   ".", "a", "a", "a", "a", "a", "a">>

\* the Frankfurt case of the unit test was derived
DeriveFrankfurtWitness ==
    /\ dpc = "done"
    /\ regionKey = <<"f", "r", "a">>
    /\ volumeName = <<"a", "a", "a", "a", "a", "a">>
    /\ Len(volumeOCID) = 38

\* a name that already carries the prefix came back unchanged
DerivePrefixedReached ==
    /\ dpc = "done"
    /\ Len(volumeName) > 6
    /\ volumeOCID = volumeName

----------------------------------------------------------------------------
(* Properties of GetInstanceByNodeName (SpecResolve) *)

\* phase 2 is being run, or has returned
InPhase2 ==
    \/ rpc \in {"subnets", "list2", "items", "getvnic", "getinstance"}
    \/ rpc = "done" /\ rres.phase = 2

\* phase 1 returned an instance, which GetInstanceByNodeName returned
ReturnedByPhase1 == rpc = "done" /\ rres.phase = 1 /\ rres.instance # NoInstance

\* C13: phase 1 returns an instance only when exactly one instance with the
\* display name is RUNNING across all its pages; when the pages hold zero or
\* two or more RUNNING instances, phase 1 is a non-match and phase 2 is
\* attempted.
Phase1UniqueOrPhase2 ==
    /\ ReturnedByPhase1 =>
          /\ rhist.p1 = "listed"
          /\ rhist.served1 = 1
          /\ rres.instance.state = "RUNNING"
    /\ (rhist.p1 = "listed" /\ rhist.served1 # 1) =>
          /\ InPhase2
          /\ ~ReturnedByPhase1
    /\ (rhist.p1 = "listed" /\ rhist.served1 = 1) =>
          /\ ReturnedByPhase1
          /\ ~InPhase2

\* two RUNNING instances shared the display name, and phase 2 resolved the node
Phase1AmbiguousWitness ==
    /\ rhist.p1 = "listed"
    /\ rhist.served1 = 2
    /\ rpc = "done"
    /\ rres.phase = 2
    /\ rres.instance # NoInstance

\* phase 2 ran to its count check
Phase2Counted == rpc = "done" /\ rres.phase = 2 /\ rres.err \in {"", "count"}

\* C14: instance resolution never guesses.  When phase 1 does not match and
\* phase 2 collects zero or more than one RUNNING candidate, the call returns
\* an error naming the count, and no instance; every instance the call returns
\* is RUNNING and was the only candidate of the phase that returned it.
ResolveNeverGuesses ==
    /\ (rpc = "done" /\ rres.phase = 2 /\ rres.err \notin {"api", "nosubnets"}
            /\ rhist.served2 # 1) =>
          /\ rres.err = "count"
          /\ rres.n = rhist.served2
          /\ rres.instance = NoInstance
    /\ (rpc = "done" /\ rres.instance # NoInstance) =>
          /\ rres.err = ""
          /\ rres.instance.state = "RUNNING"
          /\ rres.phase \in {1, 2}
          /\ rres.phase = 1 => rhist.served1 = 1
          /\ rres.phase = 2 => rhist.served2 = 1
    /\ (rpc = "done" /\ rres.err # "") => rres.instance = NoInstance

\* phase 2 found two RUNNING candidates and the call failed naming the count 2
Phase2AmbiguousWitness ==
    /\ Phase2Counted
    /\ rhist.served2 = 2
    /\ rres.err = "count"
    /\ rres.n = 2

\* C15 as claimed: an API error of a remote call ends the resolution with that
\* error: after an error of the phase-1 ListInstances call phase 2 is not
\* attempted, and an error of GetVnic in phase 2 fails the resolution (a step
\* of GetVnic that leaves the cache as it was is the failed call).
ApiErrorsPropagate ==
    [][ /\ (rpc = "list1" /\ rhist'.p1 = "api") => (rpc' = "done" /\ rres'.err = "api")
        /\ (rpc = "getvnic" /\ rcache' = rcache) => (rpc' = "done" /\ rres'.err = "api")
      ]_vars

\* the first half of C15 alone: no phase 2 after an API error of ListInstances
ListErrorEndsResolution ==
    rhist.p1 = "api" => (rpc = "done" /\ rres.phase = 1 /\ rres.err = "api")

\* the second half of C15 alone
VnicErrorEndsResolution ==
    [][(rpc = "getvnic" /\ rcache' = rcache) => (rpc' = "done" /\ rres'.err = "api")]_vars

\* C16 as claimed: an invocation resolved by phase 1 has never taken the cache
\* lock and never rewritten the cache file.
CacheOnlyInPhase2 ==
    ReturnedByPhase1 => (rcache.locks = 0 /\ rcache.writes = 0)

\* C16 as amended: every invocation whose cache.Open succeeds takes the lock
\* once, at its start, holds it until it returns, and rewrites the file at
\* most once, when it returns, whichever phase resolves the node; after the
\* rewrite the file decodes to the map of the handle, which for an invocation
\* resolved by phase 1 is the map it read.
CacheOncePerCall ==
    /\ rpc = "open" => (rcache.locks = 0 /\ rcache.writes = 0)
    /\ (rpc = "done" /\ rres.err = "open") => (rcache.locks = 0 /\ rcache.writes = 0)
    /\ (rpc \notin {"open", "done"}) =>
          (rcache.locks = 1 /\ rcache.held /\ rcache.writes = 0)
    /\ (rpc = "done" /\ rres.err # "open") =>
          /\ rcache.locks = 1
          /\ ~rcache.held
          /\ rcache.writes <= 1
          /\ rcache.writes = 1 => Decode(rfile) = rcache.vnics
    /\ ReturnedByPhase1 => Decode(rfile) = rcache.vnics

\* resolved by phase 1, and yet the file was locked and rewritten
Phase1RewritesWitness ==
    /\ ReturnedByPhase1
    /\ rcache.locks = 1
    /\ rcache.writes = 1
    /\ DOMAIN rcache.vnics # {}

----------------------------------------------------------------------------
(* Properties of the cache (SpecCache) *)

\* the invocations between a successful Open and the Close of that handle
Holders == {p \in Procs : cproc[p].pc = "open"}

\* C17: the cache file is held under an exclusive lock from Open until Close.
\* Of any number of concurrent invocations at most one is between a
\* successful Open and its Close, it holds the exclusive lock all that time,
\* and the Open of every other one cannot get past its Flock until that
\* Close has released the lock.
CacheMutualExclusion ==
    /\ Cardinality(Holders) <= 1
    /\ \A p \in Procs :
          /\ cproc[p].pc = "open" <=> clock[p] = "LOCK_EX"
          /\ clock[p] \in {"", "LOCK_EX"}
          /\ (cproc[p].pc = "flock" /\ Holders # {}) =>
                ~ENABLED (CacheFlock(p) /\ cproc'[p].pc = "open")
          /\ (cproc[p].pc = "flock" /\ Holders = {}) =>
                ENABLED (CacheFlock(p) /\ cproc'[p].pc = "open")

\* one invocation holds the cache while another waits in Open for the lock
CacheBlockedWitness ==
    /\ cproc[1].pc = "open"
    /\ cproc[2].pc = "flock"
    /\ DOMAIN cproc[1].vnics # {}

\* C18: the cache round-trips through the file.  What SetVnic(id, v) stored
\* under a handle that was then closed, a later Open of the file followed by
\* GetVnic(id) returns as (v, true), unless the later handle has itself set
\* the id since.
CacheRoundTrip ==
    (clast # NoGet /\ clast.id \in DOMAIN cexpect /\ clast.id \notin DOMAIN cpend) =>
        /\ clast.ok
        /\ clast.value = cexpect[clast.id]

\* a value with string fields, set and closed by invocation 1, was read back
\* by invocation 2 from a file that still holds, behind the map, the rest
\* of the longer text it held before
CacheRoundTripWitness ==
    /\ clast.proc = 2
    /\ clast.ok
    /\ clast.id \in DOMAIN cexpect
    /\ clast.id \notin DOMAIN cpend
    /\ clast.value = cexpect[clast.id]
    /\ clast.value.publicIp # <<>>
    /\ cproc[1].pc = "closed"
    /\ ObjectEnd(cfile) # 0
    /\ Len(cfile) > ObjectEnd(cfile) + 1

\* C19: Close is idempotent.  A second Close of a handle that is already
\* closed returns no error, leaves the file as it is and leaves every lock
\* as it is, the one another invocation holds by then included.
CloseIdempotent ==
    [][\A p \in Procs :
          (cproc[p].pc = "closed" /\ cproc'[p].closes = cproc[p].closes + 1) =>
              /\ cproc'[p].err = ""
              /\ cfile' = cfile
              /\ clock' = clock
              /\ cproc'[p].file = "nil"]_vars

\* invocation 1 closed its handle twice while invocation 2 held the lock
SecondCloseWitness ==
    /\ cproc[1].closes = 2
    /\ cproc[1].err = ""
    /\ cproc[2].pc = "open"
    /\ clock[2] = "LOCK_EX"

----------------------------------------------------------------------------
(* Properties of MountDevice and UnmountDevice (SpecMount) *)

\* the last call failed on the check it makes first, which did not answer
ProbeFailed ==
    \/ mlast.result.from = "DeviceOpened"
    \/ mlast.result.from = "NewFromMountPointPath" /\ mlast.result.why = "error"

\* C20: the local operations are no-ops when repeated.  MountDevice on a
\* device that is already opened (mounted) makes none of the calls AddToDB,
\* SetAutomaticLogin, Login and FormatAndMount, so nothing is formatted, and
\* returns Success; UnmountDevice on a path that is not, or no longer, a
\* mount point makes no unmount, logout or record removal and returns
\* Success.  (A call whose first check fails on the operating system
\* returns that failure, and does nothing either.)
LocalOperationsIdempotent ==
    /\ (mlast.op = "MountDevice" /\ mlast.was) =>
          /\ mlast.did = <<>>
          /\ mhost.mounted
          /\ ~ProbeFailed => mlast.result = Succeed(0)
    /\ (mlast.op = "UnmountDevice" /\ ~mlast.was) =>
          /\ mlast.did = <<>>
          /\ ~mhost.mounted
          /\ ~ProbeFailed => mlast.result = Succeed(0)

\* MountDevice formatted and mounted the volume, and MountDevice again
\* succeeded without a call
MountTwiceWitness ==
    /\ mprev.op = "MountDevice"
    /\ mprev.result.status = "Success"
    /\ mprev.did = <<"AddToDB", "SetAutomaticLogin", "Login", "waitForPathToExist",
                     "FormatAndMount", "mkfs", "mount">>
    /\ mlast.op = "MountDevice"
    /\ mlast.was
    /\ mlast.result.status = "Success"
    /\ mlast.did = <<>>

\* UnmountDevice unmounted the volume, and UnmountDevice again succeeded
\* without a call
UnmountTwiceReached ==
    /\ mprev.op = "UnmountDevice"
    /\ mprev.result.status = "Success"
    /\ mprev.did = <<"UnmountPath", "Logout", "RemoveFromDB">>
    /\ mlast.op = "UnmountDevice"
    /\ ~mlast.was
    /\ mlast.result.status = "Success"
    /\ mlast.did = <<>>

\* the calls MountDevice has made when the step named fails
StepsUpTo(step) ==
    IF step \in {"NewFromDevicePath", "DeviceOpened"} THEN <<>>
    ELSE SubSeq(Tail(MountSteps), 1,
                CHOOSE k \in DOMAIN Tail(MountSteps) : Tail(MountSteps)[k] = step)

\* C21: block MountDevice never reports silent success on a local error.
\* When a step of a MountDevice call returns an error (DeviceOpened,
\* AddToDB, SetAutomaticLogin, Login, the wait for the device path,
\* FormatAndMount), the call returns Failure for that step and has made no
\* call after it; in particular it has not mounted the device.
MountNeverSilent ==
    (mlast.op = "MountDevice" /\ mlast.errs # <<>>) =>
        /\ mlast.result.status = "Failure"
        /\ mlast.result.from = mlast.errs[1]
        /\ mlast.errs = <<mlast.errs[1]>>
        /\ mlast.did = StepsUpTo(mlast.errs[1])
        /\ \A k \in DOMAIN mlast.did : mlast.did[k] \notin {"mkfs", "mount"}
        /\ (mlast.errs[1] \in MountFaults /\ ~mlast.was) => ~mhost.mounted

\* the volume was mounted and unmounted, and MountDevice with another
\* filesystem type than the one on the volume failed in FormatAndMount
MountConflictWitness ==
    /\ mprev.op = "UnmountDevice"
    /\ mprev.result.status = "Success"
    /\ mprev.did # <<>>
    /\ mlast.op = "MountDevice"
    /\ mhost.dir
    /\ mhost.fs \notin {"", mlast.fstype}
    /\ mlast.errs = <<"FormatAndMount">>
    /\ mlast.result.status = "Failure"
    /\ mlast.did = Tail(MountSteps)

\* MountDevice failed in FormatAndMount for want of the mount directory
MountMissingDirReached ==
    /\ mlast.op = "MountDevice"
    /\ ~mhost.dir
    /\ mhost.session
    /\ mlast.errs = <<"FormatAndMount">>
    /\ mlast.result.status = "Failure"

\* MountDevice failed in Login, after AddToDB and SetAutomaticLogin
MountLoginFailedReached ==
    /\ mlast.op = "MountDevice"
    /\ mlast.errs = <<"Login">>
    /\ mlast.did = <<"AddToDB", "SetAutomaticLogin", "Login">>
    /\ mhost.db /\ mhost.auto /\ ~mhost.session /\ ~mhost.mounted

----------------------------------------------------------------------------
(* Properties of ExecDriver (SpecExec) *)

\* C22: the mount, unmount and getvolumename call-outs return the status
\* "Not supported" for every argument and in every state.
NotSupportedAlways ==
    ecall.cmd \in {"mount", "unmount", "getvolumename"} => eres = NotSupported

\* what holds of the three call-outs: getvolumename is always answered with
\* "Not supported", and mount and unmount never reach a driver method other
\* than Mount and Unmount, which do nothing
UnsupportedReachNoDriver ==
    /\ ecall.cmd = "getvolumename" => eres = NotSupported
    /\ ecall.cmd \in {"mount", "unmount"} => eres.status # "driver"

\* a mount call-out with the right arguments for a volume that a driver
\* claims is answered with Failure
MountCallOutFailsReached ==
    /\ ecall.cmd = "mount"
    /\ ecall.n = 4
    /\ ecall.opts = "ok"
    /\ ClaimVolume(ecall.volume, edrivers) = "block"
    /\ eres.status = "Failure"

----------------------------------------------------------------------------
(* Properties of IsAttached and WaitForAttach (SpecObserve) *)

\* C23: IsAttached(opts, nodeName) reports attached = true only for an
\* attachment of the volume to the instance of nodeName.
AttachedOnlyToHost ==
    (qlast.op = "IsAttached" /\ qlast.result.attached) =>
        qlast.seen.instance = InstanceOf(qlast.node)

\* IsAttached for node1 answered attached = true on an attachment to inst2
AttachedElsewhereReported ==
    /\ qlast.op = "IsAttached"
    /\ qlast.node = "node1"
    /\ qlast.result.status = "Success"
    /\ qlast.result.attached
    /\ qlast.seen.instance = "inst2"
    /\ qlast.seen.state = "ATTACHED"

\* what holds: attached = true is reported exactly when the lookup returned
\* an ATTACHING or ATTACHED attachment of the volume, to whichever instance
AttachedIffFound ==
    qlast.op = "IsAttached" =>
        (qlast.result.attached <=>
            /\ qlast.seen # NotFound
            /\ qlast.seen.volume = qlast.volume
            /\ InUse(qlast.seen.state))

\* C24: an error of the list-volume-attachments call of IsAttached is
\* returned as Failure; Success with attached = false is returned only when
\* the listing succeeded and held no ATTACHING or ATTACHED attachment.
ListErrorFailsIsAttached ==
    qlast.op = "IsAttached" =>
        /\ qlast.err = "api" => qlast.result.status = "Failure"
        /\ (qlast.result.status = "Success" /\ ~qlast.result.attached) =>
               qlast.err = "notfound"

\* the list call failed while the volume was ATTACHED, and IsAttached
\* answered Success with attached = false
ListErrorReportedDetached ==
    /\ qlast.op = "IsAttached"
    /\ qlast.err = "api"
    /\ qlast.live # {}
    /\ qlast.result.status = "Success"
    /\ ~qlast.result.attached

\* C25: WaitForAttach returns Success only if the volume has an attachment
\* that was observed ATTACHED.
WaitForAttachObserves ==
    (qlast.op = "WaitForAttach" /\ qlast.result.status = "Success") => qlast.live # {}

\* WaitForAttach answered Success while the service held no attachment
WaitForAttachBlindReached ==
    /\ qlast.op = "WaitForAttach"
    /\ qlast.result.status = "Success"
    /\ attachments = <<>>

\* what holds: WaitForAttach returns Success with the device it was given,
\* whatever the service holds
WaitForAttachEchoes ==
    qlast.op = "WaitForAttach" =>
        /\ qlast.result.status = "Success"
        /\ qlast.result.device \in 0..MaxAttachments

----------------------------------------------------------------------------
(* Properties of the retry after a kill (SpecRetry) *)

\* a later call-out has returned: an Attach for the volume and node of the
\* killed Attach, while the attachment the killed Attach created is still
\* ATTACHING or ATTACHED (no detach request was accepted for it)
RetryAfterKill ==
    /\ killed # NoKill
    /\ InUse(attachments[killed.att].state)
    /\ pc = "idle"
    /\ last # NoResult
    /\ cur = [op |-> "Attach", volume |-> killed.volume, node |-> killed.node]

\* C26: re-observation on retry.  After an Attach was killed once the remote
\* service had accepted its attach request, a later Attach for the same
\* volume and node with no detach in between, whose remote calls are
\* answered, gets the 409, finds the attachment of the killed call and
\* returns Success with its device, or fails because the attachment stayed
\* ATTACHING for the whole poll budget; its attach request is not accepted,
\* and the volume has no second attachment in use.
RetryReobserves ==
    RetryAfterKill =>
        /\ statusCode # 200
        /\ \A id \in Ids : (id # killed.att /\ attachments[id].volume = killed.volume) =>
               ~InUse(attachments[id].state)
        /\ ~EnvFailed =>
               /\ statusCode = StatusConflict
               /\ found = killed.att
               /\ \/ last = Succeed(killed.att)
                  \/ last = Fail("WaitForVolumeAttached", "retries")

\* the Attach was killed while its attachment was ATTACHING, and the retry
\* returned Success with the device of that attachment
RetryReobservesWitness ==
    /\ RetryAfterKill
    /\ last = Succeed(killed.att)
    /\ statusCode = StatusConflict
    /\ found = killed.att
    /\ Len(attachments) = 1


\* C27: every successful return of AttachFileSystemToMountTarget, the return
\* for an export that already exists included, comes after the invocation
\* has seen the export of its path in the lifecycle state ACTIVE.
AttachReturnsAfterActive ==
    (xpc = "idle" /\ xres = "ok") => IsActive(export)

\* an invocation returned success for an export it found, holding it in a
\* lifecycle state other than ACTIVE
ExistingExportNotActiveReached ==
    ~(xpc = "idle" /\ xres = "ok" /\ xfound /\ ~IsActive(export))

\* what the code does keep: a success for an export the invocation created
\* itself comes after a poll that saw it ACTIVE
CreatedExportReturnsAfterActive ==
    (xpc = "idle" /\ xres = "ok" /\ ~xfound) => IsActive(export)

\* C28: the poll for the activation of the export ends after a fixed maximum
\* number of GetExport calls, also when the export never becomes ACTIVE.
ExportPollTerminates ==
    (xpc = "poll") ~> (xpc = "idle")

\* the poll has made MaxPolls GetExport calls and goes on
ExportPollGoesOnReached ==
    ~(xpc = "poll" /\ xpolls = MaxPolls /\ ~IsActive(export))

\* what ends the poll: a success is a poll that saw ACTIVE, anything else is
\* a GetExport that failed
ExportPollEndsOnlyOnActiveOrError ==
    [][(xpc = "poll" /\ xpc' = "idle") =>
          \/ (xres' = "ok" /\ IsActive(export))
          \/ xres' = "error"]_vars

\* C29: MountDevice of the file-storage driver mounts the network file system
\* at mountDir when nothing is mounted there and returns Success when that
\* mount succeeded; it returns Failure only when a check on the node or the
\* mount itself failed.
FilestorageMountSucceeds ==
    nlast.op = "MountDevice" =>
        /\ nlast.did => nlast.status.status = "Success"
        /\ nlast.status.status = "Failure" => ~nlast.did

\* MountDevice made the mount, the file system is mounted at mountDir, and
\* the status is Failure
FilestorageMountedFailureReached ==
    ~(/\ nlast.op = "MountDevice"
      /\ nlast.did
      /\ nhost.mounts[nlast.dir] = [ip |-> nlast.device[2], device |-> nlast.device]
      /\ nlast.status.status = "Failure")

\* what holds: MountDevice makes the mount exactly where nothing was mounted
\* and no step failed, and it never returns Success
FilestorageMountDeviceNeverSucceeds ==
    nlast.op = "MountDevice" =>
        /\ nlast.status.status # "Success"
        /\ nlast.did => nlast.status = MountDeviceReturn
        /\ nlast.did => nhost.mounts[nlast.dir] # NoSource

\* C30: Attach returns Success with a device only from a poll of its own
\* that saw the attachment ATTACHED, and the device is the one of that
\* attachment (its iSCSI address, port and IQN); a poll that sees the
\* attachment DETACHING or DETACHED makes Attach return Failure, without
\* another poll.
AttachSuccessOnlyAfterAttached ==
    [][(cur.op = "Attach" /\ pc # "idle") =>
          /\ (pc' = "idle" /\ last'.status = "Success") =>
                /\ pc = "wait"
                /\ att \in Ids
                /\ attachments[att].state = "ATTACHED"
                /\ attachments[att].volume = cur.volume
                /\ attachments[att].iscsi
                /\ last'.device = att
          /\ (pc = "wait" /\ attachments[att].state \in {"DETACHING", "DETACHED"}) =>
                /\ pc' = "idle" => last'.status = "Failure"
                /\ pc' = "wait" => i' = i]_vars

\* an Attach that polled returned Success with the device of an attachment
\* that is ATTACHED
AttachSuccessAfterPollWitness ==
    /\ cur.op = "Attach"
    /\ pc = "idle"
    /\ calls.polled
    /\ last.status = "Success"
    /\ last.device \in Ids
    /\ attachments[last.device].state = "ATTACHED"

\* an Attach whose poll saw the attachment detached by another invocation
\* returned the Failure of the unexpected state
AttachSawDetachReached ==
    ~(/\ cur.op = "Attach"
      /\ pc = "idle"
      /\ last = Fail("WaitForVolumeAttached", "state")
      /\ \E id \in Ids : attachments[id].volume = cur.volume
                          /\ attachments[id].state \in {"DETACHING", "DETACHED"})

\* C31: Detach returns Success only after it sent the detach request for the
\* attachment it found and a poll of its own saw that attachment DETACHED; a
\* poll that still sees the attachment ATTACHED makes Detach return Failure,
\* without another poll, although the detach request was accepted.
DetachSuccessOnlyAfterDetached ==
    [][(cur.op = "Detach" /\ pc # "idle") =>
          /\ (pc' = "idle" /\ last'.status = "Success") =>
                /\ pc = "wait"
                /\ calls.detach = 1
                /\ att \in Ids
                /\ attachments[att].volume = cur.volume
                /\ attachments[att].state = "DETACHED"
          /\ (pc = "wait" /\ attachments[att].state = "ATTACHED") =>
                /\ pc' = "idle" => last'.status = "Failure"
                /\ pc' = "wait" => i' = i]_vars

\* a Detach whose detach request was accepted returned the Failure of the
\* unexpected state from its first poll, the attachment still in use
DetachSawAttachedWitness ==
    /\ cur.op = "Detach"
    /\ pc = "idle"
    /\ calls.detach = 1
    /\ calls.polled
    /\ last = Fail("WaitForVolumeDetached", "state")
    /\ \E id \in Ids : attachments[id].volume = cur.volume
                        /\ attachments[id].state = "ATTACHED"

\* a Detach returned Success, its attachment DETACHED
DetachSuccessReached ==
    ~(/\ cur.op = "Detach"
      /\ pc = "idle"
      /\ last.status = "Success"
      /\ calls.detach = 1
      /\ \E id \in Ids : attachments[id].volume = cur.volume
                          /\ attachments[id].state = "DETACHED")

\* both invocations have returned
ParBothDone == \A p \in Invocations : invs[p].pc = "done"

\* a failure of the invocation's environment: configuration, node lookup, a
\* remote call that failed, or an attachment not ATTACHED within the budget
ParEnvFailed(p) ==
    \/ invs[p].result.why \in {"config", "resolve", "retries"}
    \/ invs[p].statusCode \in ErrorStatusCodes
    \/ invs[p].result.why = "api" /\ invs[p].result.from # "AttachVolume"

\* no detach request was accepted for the volume
ParNoDetach == \A id \in Ids : InUse(attachments[id].state)

\* C32: two concurrent Attach invocations for the same volume and the same
\* node, with no detach of the volume and their environment answering, both
\* return Success with the same device: one attachment is created, and the
\* invocation answered with 409 takes the attachment of the other.
ConcurrentAttachSameNode ==
    (/\ ParBothDone
     /\ invs[1].node = invs[2].node
     /\ ParNoDetach
     /\ \A p \in Invocations : ~ParEnvFailed(p)) =>
        /\ Len(attachments) = 1
        /\ \A p \in Invocations : invs[p].result = Succeed(1)
        /\ \E p \in Invocations :
              /\ invs[p].statusCode = 200
              /\ invs[3 - p].statusCode = StatusConflict

\* both invocations for one node returned Success with one device, one of
\* them after a 409
ConcurrentAttachSameNodeWitness ==
    /\ ParBothDone
    /\ invs[1].node = invs[2].node
    /\ ParNoDetach
    /\ invs[1].result = Succeed(1)
    /\ invs[2].result = Succeed(1)
    /\ invs[1].statusCode = StatusConflict
    /\ invs[2].statusCode = 200
    /\ Len(attachments) = 1

BothSucceedAfterDetachReached ==
    ~(/\ ParBothDone
      /\ invs[1].node # invs[2].node
      /\ invs[1].result.status = "Success"
      /\ invs[2].result.status = "Success")

\* the volume of the call-out has attachments, one of them DETACHING, and
\* none in use
OnlyDetaching ==
    /\ \E id \in Ids : attachments[id].volume = cur.volume
                        /\ attachments[id].state = "DETACHING"
    /\ ~HasLive(cur.volume)

\* C34: a Detach whose lookup runs while the attachment of the volume is
\* already DETACHING returns Failure, with the not-found error of the lookup
\* when its remote calls answer, and sends no detach request and makes no
\* poll.
DetachOfDetachingNotFound ==
    [][(cur.op = "Detach" /\ pc = "start" /\ pc' # "start" /\ OnlyDetaching) =>
          /\ pc' = "idle"
          /\ last'.status = "Failure"
          /\ last'.why \notin {"config", "api"} =>
                last' = Fail("FindVolumeAttachment", "notfound")
          /\ calls'.detach = 0
          /\ ~calls'.polled]_vars

\* a Detach returned the not-found Failure, without a detach request and
\* without a poll, the attachment of its volume DETACHING
DetachOfDetachingWitness ==
    /\ cur.op = "Detach"
    /\ pc = "idle"
    /\ OnlyDetaching
    /\ last = Fail("FindVolumeAttachment", "notfound")
    /\ calls.list = 1
    /\ calls.detach = 0
    /\ ~calls.polled

\* C35: the two halves never cross.  MountDevice and UnmountDevice of both
\* drivers send no request to the cloud API, and Attach, Detach and
\* IsAttached of both drivers make no operation on the node: no iSCSI login
\* or logout, no change of the initiator database, no mount or unmount.
HalvesNeverCross ==
    /\ tcall.method \in {"MountDevice", "UnmountDevice"} => tdone \cap RemoteApi = {}
    /\ tcall.method \in {"Attach", "Detach", "IsAttached"} => tdone \cap LocalOps = {}

\* a MountDevice of the block driver made all its operations on the node
HalvesNeverCrossWitness ==
    /\ tcall = [driver |-> "oci", method |-> "MountDevice"]
    /\ tdone = BlockCalls("MountDevice")
    /\ {"Login", "FormatAndMount"} \subseteq tdone

\* an Attach of the file-storage driver sent all its requests
FilestorageAttachCallsReached ==
    ~(/\ tcall = [driver |-> "filestorage", method |-> "Attach"]
      /\ {"CreateExport", "GetExport"} \subseteq tdone)

\* the last two calls are UnmountDevice for the mounted path: the first
\* unmounted it and failed at Logout or at RemoveFromDB, the second is the
\* retry of the orchestrator
UnmountRetried ==
    /\ mprev.op = "UnmountDevice"
    /\ mprev.was
    /\ mprev.errs \in {<<"Logout">>, <<"RemoveFromDB">>}
    /\ mlast.op = "UnmountDevice"

\* C36: whenever UnmountDevice returns Success for a path that was mounted
\* from an iSCSI device, the session of the device is logged out and its
\* record is removed from the initiator database; also when the call is the
\* retry of an UnmountDevice that unmounted the path and then failed.
UnmountSuccessLoggedOut ==
    (/\ mlast.op = "UnmountDevice"
     /\ mlast.result.status = "Success"
     /\ mlast.was \/ UnmountRetried) =>
        /\ ~mhost.session
        /\ ~mhost.db

\* the retry returned Success without a call, the session still logged in
UnmountRetryKeepsSessionReached ==
    ~(/\ UnmountRetried
      /\ mprev.errs = <<"Logout">>
      /\ mlast.result.status = "Success"
      /\ mlast.did = <<>>
      /\ mhost.session
      /\ mhost.db)

\* what holds: an UnmountDevice that found the path mounted and returned
\* Success has logged out and removed the record
UnmountOfMountedLoggedOut ==
    (mlast.op = "UnmountDevice" /\ mlast.result.status = "Success" /\ mlast.was) =>
        /\ ~mhost.session
        /\ ~mhost.db
        /\ mlast.did = <<"UnmountPath", "Logout", "RemoveFromDB">>

\* the RUNNING instances phase 2 collected, as a set
RunningInstances == {running[k].id : k \in DOMAIN running}

\* C37: phase 2 returns the instance whenever exactly one RUNNING instance
\* owns an attached interface in the subnets that matches the node name,
\* also when that instance has two or more such interfaces.
Phase2OneInstanceResolved ==
    (Phase2Counted /\ Cardinality(RunningInstances) = 1) =>
        /\ rres.err = ""
        /\ rres.instance.id \in RunningInstances

\* one RUNNING instance with two matching interfaces: the call failed
\* naming the count 2
Phase2TwoInterfacesReached ==
    ~(/\ Phase2Counted
      /\ Len(running) = 2
      /\ RunningInstances = {"inst1"}
      /\ rres.err = "count"
      /\ rres.n = 2
      /\ rres.instance = NoInstance)

\* what holds: phase 2 returns the instance exactly when one matching
\* interface of a RUNNING instance was collected
Phase2OneInterfaceResolved ==
    Phase2Counted =>
        /\ Len(running) = 1 => (rres.err = "" /\ rres.instance = running[1])
        /\ Len(running) # 1 => (rres.err = "count" /\ rres.n = Len(running))

\* C38: no cache update is lost under concurrency.  Whatever the
\* invocations set under handles they closed without an error is in the
\* file, each id with the value of the last such handle that set it: a
\* later opener reads the entries of the earlier closers and writes them
\* back with its own.
CacheNoLostUpdate ==
    \A id \in DOMAIN cexpect :
        GetVnic(Decode(cfile), id) = [value |-> cexpect[id], ok |-> TRUE]

\* two invocations opened the file once each and closed without an error;
\* the file holds the two entries set under their handles
CacheNoLostUpdateWitness ==
    /\ \A p \in {1, 2} : cproc[p].pc = "closed" /\ cproc[p].err = "" /\ cproc[p].opens = 1
    /\ DOMAIN cexpect = VnicIds
    /\ cexpect["v1"].publicIp = <<>>
    /\ cexpect["v2"].publicIp # <<>>
    /\ \A id \in VnicIds : GetVnic(Decode(cfile), id).value = cexpect[id]

----------------------------------------------------------------------------
(* pkg/oci/driver: the registry of drivers.  The map drivers is a function  *)
(* from the registered names to the values stored under them; "nil" is the  *)
(* nil interface value.                                                     *)

DriverNames == {"oci-bvs", "oci-fss", "oci"}

DriverValues == {"block", "filestorage"}

\* driver, ok := drivers[name]
Lookup(reg, name) ==
    IF name \in DOMAIN reg THEN [driver |-> reg[name], ok |-> TRUE]
    ELSE [driver |-> "nil", ok |-> FALSE]

\* Register: the short variable declaration declares ok and assigns the
\* looked-up value to the parameter driver, which is what is then stored
Register(reg, name, driver) ==
    LET l == Lookup(reg, name)
    IN  IF ~l.ok THEN reg @@ (name :> l.driver) ELSE reg

Get(reg, name) ==
    LET l == Lookup(reg, name)
    IN  IF ~l.ok THEN [driver |-> "nil", err |-> "could not find a registered driver"]
        ELSE [driver |-> l.driver, err |-> ""]

RegistryRegister(name, driver) ==
    /\ gdrivers' = Register(gdrivers, name, driver)
    /\ gfirst' = IF name \in DOMAIN gdrivers THEN gfirst ELSE gfirst @@ (name :> driver)
    /\ gcall' = [op |-> "Register", name |-> name, driver |-> driver]
    /\ gres' = NoLookup
    /\ UNCHANGED <<base, dvars, rvars, cvars, mvars, evars, qvars, kvars, svars, nvars, pvars, tvars>>

RegistryGet(name) ==
    /\ gres' = Get(gdrivers, name)
    /\ gcall' = [op |-> "Get", name |-> name, driver |-> "nil"]
    /\ UNCHANGED <<base, dvars, rvars, cvars, mvars, evars, qvars, kvars, svars, nvars, pvars, tvars,
                   gdrivers, gfirst>>

InitRegistry ==
    /\ DriverOff
    /\ WaitOff
    /\ FindOff
    /\ OthersOff({"registry"})
    /\ gdrivers = <<>>
    /\ gfirst = <<>>
    /\ gcall = NoRegistryCall
    /\ gres = NoLookup

NextRegistry ==
    \/ \E name \in DriverNames, driver \in DriverValues : RegistryRegister(name, driver)
    \/ \E name \in DriverNames : RegistryGet(name)

SpecRegistry == InitRegistry /\ [][NextRegistry]_vars

\* C40: the registry round-trips.  After Register(name, d) for a name not
\* yet registered, Get(name) returns the driver d and no error.
RegistryRoundTrip ==
    (gcall.op = "Get" /\ gcall.name \in DOMAIN gfirst) =>
        gres = [driver |-> gfirst[gcall.name], err |-> ""]

\* Get of a name that was registered with the block driver returned the nil
\* driver and no error
RegistryGetNilReached ==
    /\ gcall = [op |-> "Get", name |-> "oci-bvs", driver |-> "nil"]
    /\ "oci-bvs" \in DOMAIN gfirst
    /\ gfirst["oci-bvs"] = "block"
    /\ gres = [driver |-> "nil", err |-> ""]

\* what holds of the registry: Get returns an error exactly for the names
\* never passed to Register, and the nil driver for every name
RegistryHoldsNil ==
    /\ DOMAIN gdrivers = DOMAIN gfirst
    /\ \A name \in DOMAIN gdrivers : gdrivers[name] = "nil"
    /\ gcall.op = "Get" =>
          /\ gres.driver = "nil"
          /\ (gres.err = "") = (gcall.name \in DOMAIN gfirst)

----------------------------------------------------------------------------
(* The dispatch of ExecDriver (SpecExec) *)

\* a call-out that reaches ClaimVolume followed by the nil test: the right
\* number of arguments and, for the commands that take options, options
\* that parse and hold the volume name
ReachesDispatch ==
    /\ ecall.cmd \in {"detach", "waitforattach", "isattached", "mountdevice",
                      "unmountdevice", "mount", "unmount"}
    /\ ecall.n = Expected[ecall.cmd]
    /\ ecall.cmd \in {"detach", "unmountdevice", "unmount"} \/ ecall.opts = "ok"

\* C39: for the detach, waitforattach, isattached, mountdevice,
\* unmountdevice, mount and unmount call-outs ExecDriver returns the status
\* of the method of the first driver that claims the volume, and the
\* failure "Unable to find flexdriver" only when no driver claims it.
DispatchToClaimingDriver ==
    ReachesDispatch =>
        LET driver == ClaimVolume(ecall.volume, edrivers)
        IN  IF driver = "nil"
            THEN eres = Fail("ExecDriver", "Unable to find flexdriver")
            ELSE eres = DriverCall(driver, MethodOf[ecall.cmd])

\* a detach call-out for a block volume, with the block driver first in the
\* list, is answered with "Unable to find flexdriver"
DetachClaimedFailsReached ==
    /\ ecall.cmd = "detach"
    /\ ecall.n = 4
    /\ edrivers = <<"block", "filestorage">>
    /\ ClaimVolume(ecall.volume, edrivers) = "block"
    /\ eres = Fail("ExecDriver", "Unable to find flexdriver")

\* a detach call-out for a volume that no driver of the list claims calls
\* Detach on the nil driver
DetachUnclaimedPanicsReached ==
    /\ ecall.cmd = "detach"
    /\ ecall.n = 4
    /\ edrivers = <<"filestorage">>
    /\ ClaimVolume(ecall.volume, edrivers) = "nil"
    /\ eres = Panic

\* what holds of the seven call-outs: no method of a driver that claims the
\* volume is reached; the failure is returned exactly when a driver claims
DispatchNeverReachesDriver ==
    ReachesDispatch =>
        IF ClaimVolume(ecall.volume, edrivers) = "nil"
        THEN eres = Panic
        ELSE eres = Fail("ExecDriver", "Unable to find flexdriver")

\* what holds of attach, which has no nil test: the call-out returns the
\* status of Attach of the first driver that claims the volume
AttachDispatched ==
    (ecall.cmd = "attach" /\ ecall.n = 4 /\ ecall.opts = "ok") =>
        eres = DriverCall(ClaimVolume(ecall.volume, edrivers), "Attach")
=============================================================================
